---- MODULE Spec2Model ----
(***************************************************************************)
(* A model of the cantina Logger (include/cantina/logger.h, logger.cpp):   *)
(* the tree of Logger objects, Logger::Log's walk to the root, the root's  *)
(* EmitLog, SetLogFacility / SetLogLevel, and the LoggingBuf stream buffer *)
(* (thread_sync / xsputn / sync) used by several threads.                  *)
(*                                                                         *)
(* A text (std::string) is a sequence of pieces, each piece a string;      *)
(* std::string concatenation is concatenation of the sequences, and Render *)
(* gives the characters.  A Logger is a number 1..nodes; 0 is the null     *)
(* LoggerPointer.  The build modelled is the POSIX, non-Android one.       *)
(***************************************************************************)
EXTENDS Integers, Sequences, FiniteSets, TLC

\* ------------------------------------------------------------- bounds
\* Logger objects constructed in a run (the root and its descendants).
MaxNodes == 3
\* Threads streaming into the one LoggingBuf.
NumThreads == 2
\* Stream calls (operator<< and std::flush) the threads make in all.
MaxOps == 3
\* The same when every message is flushed and no wait times out.
MaxFlushOps == 5
\* The same from a state in which a thread owns the buffer, timeouts uncapped.
MaxFairOps == 2
\* Calls of Log the threads make in all when they call it themselves.
MaxLogs == 3
\* Waits on the buffer that run into their timeout.
MaxTimeouts == 1
\* calls of Log the one thread of SpecFile makes
MaxFileLogs == 3
\* calls of xsputn, sync and Log the threads of SpecCustomFlush make
MaxCustomOps == 3
\* calls of Log and SetLogFacility the threads of SpecSetting make
MaxSetOps == 3
\* calls of xsputn and sync the threads of SpecChannel make
MaxChannelOps == 3
\* appends the threads of SpecContend start
MaxContendOps == 2
\* calls of xsputn, sync and SetLogFacility the threads of SpecDrop make
MaxDropOps == 4
\* calls of xsputn, sync and Log the threads of SpecLocks make
MaxLockOps == 2

\* ---------------------------------------------------- enum class LogLevel
Critical == 0
Error == 1
Warning == 2
Info == 3
Debug == 4
LogLevels == {Critical, Error, Warning, Info, Debug}

\* ------------------------------------------------- enum class LogFacility
LogFacilities == {"None", "Console", "Syslog", "File", "AndroidLog"}

\* Paths given to SetLogFacility, and those the file system lets us open.
FileNames == {"a.log", "/nodir/b.log"}
Openable == {"a.log", "c.log"}

\* The filename argument: a path with File, else the default (empty) one.
FileArgs(facility) == IF facility = "File" THEN FileNames ELSE {""}

\* The text every Log call of the API-level specifications is given.
Hello == <<"hello">>

VARIABLES
    \* ---- the Logger objects (one entry per constructed Logger)
    nodes,              \* number of Logger objects constructed
    parent_logger,      \* Logger::parent_logger (0: none, the root)
    component_name,     \* Logger::component_name
    log_level,          \* Logger::log_level (the node's own threshold)
    log_facility,       \* Logger::log_facility (the node's own stored value)
    output_to_console,  \* Logger::output_to_console
    colorize,           \* Logger::colorize
    log_file,           \* Logger::log_file: the path it has open, "" closed
    syslog_open,        \* openlog() called and not yet closelog() (process-wide)
    color_possible,     \* what IsColorPossible() answers (terminal, TERM)
    custom,             \* the root is a CustomLogger (EmitLog overridden)
    held,               \* the Loggers the program holds a LoggerPointer to
    destroyed,          \* the Loggers whose destructor has run
    time_digits,        \* Logger::time_digits
    time_modulo,        \* Logger::time_modulo
    \* ---- what the program has produced
    emit_calls,         \* the calls of EmitLog the last API call made
    file_out,           \* the log file: [done: lines ended by endl, cur: open line]
    clog_out,           \* std::clog, likewise
    syslog_out,         \* the calls of syslog(): <<[priority, text]>>
    cerr_out,           \* lines written to std::cerr
    callback_out,       \* the calls of a CustomLogger's callback
    raised,             \* an exception left the last call
    last_call,          \* the API call just made: <<[op, node, level, console, arg]>>
    \* ---- one LoggingBuf and the threads that stream into it
    buf_logger,         \* LoggingBuf::logger
    buf_log_level,      \* LoggingBuf::log_level
    buf_console,        \* LoggingBuf::console
    busy,               \* LoggingBuf::busy
    owning_thread,      \* LoggingBuf::owning_thread (0: no thread yet)
    buffer_mutex,       \* LoggingBuf::buffer_mutex: the thread holding it, or 0
    buf_str,            \* the std::stringbuf's text, str()
    logger_mutex,       \* the root's Logger::logger_mutex: its holder, or 0
    pc,                 \* where each thread is
    op,                 \* the stream call a thread is in: "xsputn", "sync", "none"
    after,              \* where a thread's EmitLog returns to
    call,               \* the arguments of the EmitLog a thread is in
    \* ---- bookkeeping about the threads, not part of the program
    cur,                \* the text a thread has appended since its last flush
    msgs,               \* the flushes (or own calls of Log) a thread has completed
    log_calls,          \* the calls of Log the threads and the buffer made (a set)
    timeouts,           \* the waits that timed out (forced resets)
    ops                 \* the calls the threads have made

logger_vars == <<nodes, parent_logger, component_name, log_level, log_facility,
                 output_to_console, colorize, log_file, syslog_open,
                 color_possible, custom, held, destroyed, time_digits,
                 time_modulo>>
out_vars == <<emit_calls, file_out, clog_out, syslog_out, cerr_out, callback_out, raised,
              last_call>>
buf_vars == <<buf_logger, buf_log_level, buf_console, busy, owning_thread,
              buffer_mutex, buf_str, logger_mutex>>
thread_vars == <<pc, op, after, call, cur, msgs, log_calls, timeouts, ops>>
stream_vars == <<buf_vars, thread_vars>>
vars == <<logger_vars, out_vars, stream_vars>>

\* ------------------------------------------------------------- text
RECURSIVE Render(_)
\* The characters of a text: its pieces concatenated.
Render(text) == IF text = <<>> THEN "" ELSE Head(text) \o Render(Tail(text))

EmptyStream == [done |-> <<>>, cur |-> <<>>]
\* os << text
Put(stream, text) == [stream EXCEPT !.cur = @ \o text]
\* os << std::endl
Endl(stream) == [done |-> Append(stream.done, stream.cur), cur |-> <<>>]

\* ------------------------------------------------- Logger: pure helpers
LogLevelString(level) ==
    CASE level = Critical -> "CRITICAL"
      [] level = Error -> "ERROR"
      [] level = Warning -> "WARNING"
      [] level = Info -> "INFO"
      [] level = Debug -> "DEBUG"
      [] OTHER -> "UNKNOWN"

\* syslog.h priorities: LOG_CRIT 2, LOG_ERR 3, LOG_WARNING 4, LOG_INFO 6, LOG_DEBUG 7
MapLogLevelToSysLog(level) ==
    CASE level = Critical -> "LOG_CRIT"
      [] level = Error -> "LOG_ERR"
      [] level = Warning -> "LOG_WARNING"
      [] level = Info -> "LOG_INFO"
      [] level = Debug -> "LOG_DEBUG"
      [] OTHER -> "LOG_INFO"

\* GetTimestamp(): the clock's reading, one opaque piece here.
GetTimestamp == "<timestamp>"

\* (variant: the line says nothing of the level)
StampedMessageUntagged(level, message) == <<GetTimestamp, " ">> \o message

\* stamped_message = timestamp + " [" + LogLevelString(level) + "] " + message
StampedMessage(level, message) ==
    <<GetTimestamp, " [" \o LogLevelString(level) \o "] ">> \o message

\* The escape sequences EmitLog writes before the line when colorizing.
ColorOn(level) ==
    CASE level = Critical -> <<"\\033[1m", "\\033[31m">>
      [] level = Error -> <<"\\033[1m", "\\033[35m">>
      [] level = Warning -> <<"\\033[1m", "\\033[33m">>
      [] level = Debug -> <<"\\033[32m">>
      [] OTHER -> <<"\\033[39m">>
ColorOff == <<"\\033[0m">>

\* What EmitLog writes to std::clog before std::endl.
ClogLine(n, level, message) ==
    IF colorize[n]
    THEN ColorOn(level) \o StampedMessage(level, message) \o ColorOff
    ELSE StampedMessage(level, message)

RECURSIVE GetLogFacility(_)
\* Logger::GetLogFacility: the root's stored value.
GetLogFacility(n) ==
    IF parent_logger[n] # 0 THEN GetLogFacility(parent_logger[n])
    ELSE log_facility[n]

\* (variant: the threshold is asked of the root, as the facility is)
GetLogLevelOfRoot(n) ==
    LET RECURSIVE up(_)
        up(m) == IF parent_logger[m] # 0 THEN up(parent_logger[m]) ELSE log_level[m]
    IN up(n)

\* Logger::GetLogLevel: the node's own stored value.
GetLogLevel(n) == log_level[n]

\* (variant: the node's own flag is returned)
IsColorizedOwn(n) == colorize[n]

RECURSIVE IsColorized(_)
\* Logger::IsColorized: the root's flag ("parent logger controls color")
IsColorized(n) ==
    IF parent_logger[n] # 0 THEN IsColorized(parent_logger[n]) ELSE colorize[n]

\* (variant: the root's threshold decides)
IsDebuggingAtRoot(n) == GetLogLevelOfRoot(n) >= Debug
\* Logger::IsDebugging: return log_level >= LogLevel::Debug
IsDebugging(n) == log_level[n] >= Debug

\* (variant: a message at the threshold itself is dropped too)
SuppressedAtThreshold(n, level) == level >= log_level[n]

\* (variant: only the root compares the level with its threshold)
SuppressedAtRootOnly(n, level) == parent_logger[n] = 0 /\ level > log_level[n]

\* Logger::Log, "Do not log higher level (i.e., lesser importance) messages"
Suppressed(n, level) == level > log_level[n]

\* (variant: the label goes behind what the descendants have put in front)
FormattedMessageLabelLast(n, message) ==
    IF Len(component_name[n]) > 0 /\ Len(message) > 0
    THEN SubSeq(message, 1, Len(message) - 1)
            \o <<"[" \o component_name[n] \o "] ", message[Len(message)]>>
    ELSE message

\* Logger::Log, "Prepare the formatted message to produce"
FormattedMessage(n, message) ==
    IF Len(component_name[n]) > 0
    THEN <<"[" \o component_name[n] \o "] ">> \o message
    ELSE message

\* (variant: the flag goes up as it was passed)
ConsoleFlagAsPassed(n, console) == console
\* Logger::Log, console = console || output_to_console
ConsoleFlag(n, console) == console \/ output_to_console[n]

RECURSIVE LogWhateverFacility(_, _, _, _)
\* (variant: Log does not ask for the facility)
LogWhateverFacility(n, level, message, console) ==
    IF level > log_level[n] THEN <<>>
    ELSE IF parent_logger[n] # 0
         THEN LogWhateverFacility(parent_logger[n], level,
                  IF Len(component_name[n]) > 0
                  THEN <<"[" \o component_name[n] \o "] ">> \o message ELSE message,
                  console \/ output_to_console[n])
         ELSE <<[node |-> n, level |-> level,
                 message |-> IF Len(component_name[n]) > 0
                             THEN <<"[" \o component_name[n] \o "] ">> \o message
                             ELSE message,
                 console |-> console \/ output_to_console[n]]>>

RECURSIVE Log(_, _, _, _)
\* Logger::Log up to the call of EmitLog: <<>> when a node on the way returns,
\* else the one call <<[node, level, message, console]>> made on the root.
Log(n, level, message, console) ==
    IF GetLogFacility(n) = "None" THEN <<>>
    ELSE IF Suppressed(n, level) THEN <<>>
    ELSE IF parent_logger[n] # 0
         THEN Log(parent_logger[n], level, FormattedMessage(n, message),
                  ConsoleFlag(n, console))
         ELSE <<[node |-> n, level |-> level,
                 message |-> FormattedMessage(n, message),
                 console |-> ConsoleFlag(n, console)]>>

\* ------------------------------------------------ Logger::EmitLog, by part
\* if (log_facility == Syslog) syslog(MapLogLevelToSysLog(level), "%s", message)
EmitSyslog(c, sl) ==
    IF log_facility[c.node] = "Syslog"
    THEN Append(sl, [priority |-> MapLogLevelToSysLog(c.level), text |-> c.message])
    ELSE sl

\* the block under logger_mutex is entered
EmitNeedsLock(c) == log_facility[c.node] # "Syslog" \/ c.console

EmitToFile(c) == log_facility[c.node] = "File"
\* (variant: the console is written to for the flag alone)
EmitToClogIfFlagged(c) == c.console
\* if (log_facility == Console || console)
EmitToClog(c) == log_facility[c.node] = "Console" \/ c.console

\* log_file << stamped_message: a stream that is not open takes nothing
FilePut(c, f) ==
    IF log_file[c.node] # "" THEN Put(f, StampedMessage(c.level, c.message)) ELSE f
FileEndl(c, f) == IF log_file[c.node] # "" THEN Endl(f) ELSE f

ClogPut(c, s) == Put(s, ClogLine(c.node, c.level, c.message))

\* (variant: the facility is passed over in silence)
EmitThrowsNever(c) == FALSE
\* off Android, the AndroidLog facility throws std::runtime_error
EmitThrows(c) == log_facility[c.node] = "AndroidLog"

\* ------------------------------------------------------------ Init
\* std::make_shared<Logger>(...): the program holds a LoggerPointer to each
\* Logger it has made, and no destructor has run.
InitLife == held = 1..nodes /\ destroyed = {}

\* time_digits(6), time_modulo(1'000'000) in the constructor
InitTime ==
    /\ time_digits = [n \in 1..nodes |-> 6]
    /\ time_modulo = [n \in 1..nodes |-> 1000000]

\* (variant: the body under ANDROID, had it set the facility AndroidLog)
RootFieldsOnAndroid(name, otc, cp) ==
    /\ nodes = 1
    /\ parent_logger = <<0>>
    /\ component_name = <<name>>
    /\ log_level = <<Info>>
    /\ log_facility = <<"AndroidLog">>
    /\ output_to_console = <<otc>>
    /\ colorize = <<cp>>
    /\ log_file = <<"">>
    /\ syslog_open = FALSE
    /\ color_possible = cp

\* The members of a root Logger after the constructor called by the others.
RootFields(name, otc, cp) ==
    /\ nodes = 1
    /\ parent_logger = <<0>>
    /\ component_name = <<name>>
    /\ log_level = <<Info>>
    /\ log_facility = <<"Console">>
    /\ output_to_console = <<otc>>
    /\ colorize = <<cp>>
    /\ log_file = <<"">>
    /\ syslog_open = FALSE
    /\ color_possible = cp

\* The state after one of the root constructors of Logger.
InitRoot(name, otc, cp) == RootFields(name, otc, cp) /\ custom = FALSE /\ InitLife /\ InitTime

\* The state after CustomLogger(callback) or CustomLogger(component_name, callback)
InitCustomRoot(name) == RootFields(name, FALSE, FALSE) /\ custom = TRUE /\ InitLife /\ InitTime

InitOut ==
    /\ emit_calls = <<>>
    /\ file_out = EmptyStream
    /\ clog_out = EmptyStream
    /\ syslog_out = <<>>
    /\ cerr_out = <<>>
    /\ callback_out = <<>>
    /\ raised = FALSE
    /\ last_call = <<>>

\* No thread has touched the stream buffer (the info_buf of the root).
InitBuf(n, level, console) ==
    /\ buf_logger = n
    /\ buf_log_level = level
    /\ buf_console = console
    /\ busy = FALSE
    /\ owning_thread = 0
    /\ buffer_mutex = 0
    /\ buf_str = <<>>
    /\ logger_mutex = 0

InitThreads ==
    /\ pc = [t \in 1..NumThreads |-> "idle"]
    /\ op = [t \in 1..NumThreads |-> "none"]
    /\ after = [t \in 1..NumThreads |-> "none"]
    /\ call = [t \in 1..NumThreads |-> <<>>]
    /\ cur = [t \in 1..NumThreads |-> <<>>]
    /\ msgs = [t \in 1..NumThreads |-> 0]
    /\ log_calls = {}
    /\ timeouts = 0
    /\ ops = 0

\* ------------------------------------------- the API, one call per step
\* Each call starts a new record of what the program produced.

Called(what, n, level, console, arg) ==
    <<[op |-> what, node |-> n, level |-> level, console |-> console, arg |-> arg,
       file |-> ""]>>

\* Logger::Logger(component_name, parent_logger, output_to_console)
Construct(name, p, otc) ==
    /\ nodes < MaxNodes
    /\ p \in 1..nodes
    /\ nodes' = nodes + 1
    /\ parent_logger' = Append(parent_logger, p)
    /\ component_name' = Append(component_name, name)
    /\ log_facility' = Append(log_facility, "Console")
    /\ log_level' = Append(log_level, GetLogLevel(p))
    /\ output_to_console' = Append(output_to_console, otc)
    /\ colorize' = Append(colorize, IsColorized(p))
    /\ log_file' = Append(log_file, "")
    /\ emit_calls' = <<>> /\ file_out' = EmptyStream /\ clog_out' = EmptyStream
    /\ syslog_out' = <<>> /\ cerr_out' = <<>> /\ raised' = FALSE
    /\ callback_out' = <<>>
    /\ last_call' = Called("Logger", nodes + 1, Info, FALSE, name)
    /\ held' = held \cup {nodes + 1}
    /\ time_digits' = Append(time_digits, 6)
    /\ time_modulo' = Append(time_modulo, 1000000)
    /\ UNCHANGED <<syslog_open, color_possible, custom, destroyed, stream_vars>>

\* Logger::Colorize(colorize_output); the record of the call keeps the
\* argument as its console field
Colorize(n, colorize_output) ==
    /\ n \in 1..nodes
    /\ colorize' = [colorize EXCEPT ![n] = colorize_output /\ color_possible]
    /\ emit_calls' = <<>> /\ file_out' = EmptyStream /\ clog_out' = EmptyStream
    /\ syslog_out' = <<>> /\ cerr_out' = <<>> /\ raised' = FALSE
    /\ callback_out' = <<>>
    /\ last_call' = Called("Colorize", n, Info, colorize_output, "")
    /\ UNCHANGED <<nodes, parent_logger, component_name, log_level, log_facility,
                   output_to_console, log_file, syslog_open, color_possible,
                   custom, held, destroyed, time_digits, time_modulo, stream_vars>>

\* Logger::SetLogLevel(LogLevel)
SetLogLevel(n, level) ==
    /\ n \in 1..nodes
    /\ log_level' = [log_level EXCEPT ![n] = level]
    /\ emit_calls' = <<>> /\ file_out' = EmptyStream /\ clog_out' = EmptyStream
    /\ syslog_out' = <<>> /\ cerr_out' = <<>> /\ raised' = FALSE
    /\ callback_out' = <<>>
    /\ last_call' = Called("SetLogLevel", n, level, FALSE, "")
    /\ UNCHANGED <<nodes, parent_logger, component_name, log_facility,
                   output_to_console, colorize, log_file, syslog_open,
                   color_possible, custom, held, destroyed, time_digits, time_modulo, stream_vars>>

\* ---- level names.  A name is the sequence of its characters.
LowerCase == <<"a", "b", "c", "d", "e", "f", "g", "h", "i", "j", "k", "l", "m",
               "n", "o", "p", "q", "r", "s", "t", "u", "v", "w", "x", "y", "z">>
UpperCase == <<"A", "B", "C", "D", "E", "F", "G", "H", "I", "J", "K", "L", "M",
               "N", "O", "P", "Q", "R", "S", "T", "U", "V", "W", "X", "Y", "Z">>

\* ::toupper of a character
ToUpperChar(ch) ==
    IF \E i \in 1..Len(LowerCase) : LowerCase[i] = ch
    THEN UpperCase[CHOOSE i \in 1..Len(LowerCase) : LowerCase[i] = ch]
    ELSE ch

\* (variant: the name is compared as it is written)
AsWritten(name) == name

\* std::transform(level.begin(), level.end(), level_comparator.begin(), ::toupper)
ToUpper(name) == [i \in 1..Len(name) |-> ToUpperChar(name[i])]

\* The chain of comparisons of SetLogLevel(std::string): <<the level>> that
\* the name stands for, <<>> when it reaches the final else.
LevelOfName(name) ==
    LET level_comparator == ToUpper(name)
    IN IF level_comparator = <<"I", "N", "F", "O">> THEN <<Info>>
       ELSE IF level_comparator = <<"E", "R", "R", "O", "R">> THEN <<Error>>
       ELSE IF level_comparator = <<"W", "A", "R", "N", "I", "N", "G">> THEN <<Warning>>
       ELSE IF level_comparator = <<"C", "R", "I", "T", "I", "C", "A", "L">>
            THEN <<Critical>>
       ELSE IF level_comparator = <<"D", "E", "B", "U", "G">> THEN <<Debug>>
       ELSE <<>>

\* level_error = "Unknown log level \"" + level + "\"; setting log level to \"INFO\""
LevelError(name) ==
    <<"Unknown log level \"", Render(name), "\"; setting log level to \"INFO\"">>

\* (variant: the facility asked for is stored, the file open or not)
NewFacilityAsAsked(facility, filename) == facility
\* The facility SetLogFacility stores: None for a file that does not open.
NewFacility(facility, filename) ==
    IF facility = "File" /\ filename \notin Openable THEN "None" ELSE facility

\* SetLogFacility returns at once: a child, or the facility it already has.
\* (variant: the root changes over also to the facility it has)
FacilityKeptForChild(n, facility) == parent_logger[n] # 0
\* (variant: a child is not told from the root)
FacilityKeptIfSame(n, facility) == log_facility[n] = facility

FacilityKept(n, facility) == parent_logger[n] # 0 \/ log_facility[n] = facility

\* Logger::SetLogFacility(facility, filename)
SetLogFacility(n, facility, filename) ==
    /\ n \in 1..nodes
    /\ emit_calls' = <<>> /\ file_out' = EmptyStream /\ clog_out' = EmptyStream
    /\ syslog_out' = <<>> /\ raised' = FALSE /\ callback_out' = <<>>
    /\ last_call' = <<[Called("SetLogFacility", n, Info, FALSE, facility)[1]
                           EXCEPT !.file = filename]>>
    /\ UNCHANGED <<nodes, parent_logger, component_name, log_level,
                   output_to_console, colorize, color_possible, custom, held, destroyed, time_digits, time_modulo,
                   stream_vars>>
    /\ IF FacilityKept(n, facility)
       THEN /\ cerr_out' = <<>>
            /\ UNCHANGED <<log_facility, log_file, syslog_open>>
       ELSE /\ syslog_open' =
                 IF facility = "Syslog" THEN TRUE
                 ELSE IF log_facility[n] = "Syslog" THEN FALSE
                 ELSE syslog_open
            /\ log_file' = [log_file EXCEPT ![n] =
                 IF facility = "File" /\ filename \in Openable THEN filename
                 ELSE IF log_facility[n] = "File" THEN ""
                 ELSE @]
            /\ cerr_out' =
                 IF facility = "File" /\ filename \notin Openable
                 THEN <<<<"ERROR: Logger unable to open log file for writing: ",
                          filename>>>>
                 ELSE <<>>
            /\ log_facility' = [log_facility EXCEPT ![n] =
                                    NewFacility(facility, filename)]

\* (variant: the callback is handed the stamped line)
CallbackCallStamped(c, threw) ==
    [level |-> c.level, message |-> StampedMessage(c.level, c.message),
     console |-> c.console, threw |-> threw]

\* What a call of the callback leaves behind; threw: it raised an exception.
CallbackCall(c, threw) ==
    [level |-> c.level, message |-> c.message, console |-> c.console,
     threw |-> threw]

\* CustomLogger::EmitLog: try { callback(level, message, console); } catch (...) {}
CustomEmitLog(c) ==
    /\ emit_calls' = <<c>>
    /\ \E threw \in BOOLEAN : callback_out' = <<CallbackCall(c, threw)>>
    /\ syslog_out' = <<>> /\ file_out' = EmptyStream /\ clog_out' = EmptyStream
    /\ raised' = FALSE

\* Logger::EmitLog run to its end by the one thread there is.
LoggerEmitLog(c) ==
    /\ emit_calls' = <<c>>
    /\ syslog_out' = EmitSyslog(c, <<>>)
    /\ file_out' = IF EmitNeedsLock(c) /\ EmitToFile(c)
                   THEN FileEndl(c, FilePut(c, EmptyStream)) ELSE EmptyStream
    /\ clog_out' = IF EmitNeedsLock(c) /\ EmitToClog(c)
                   THEN Endl(ClogPut(c, EmptyStream)) ELSE EmptyStream
    /\ callback_out' = <<>>
    /\ raised' = EmitThrows(c)

\* the virtual call of EmitLog on the root
EmitLogAll(c) == IF custom THEN CustomEmitLog(c) ELSE LoggerEmitLog(c)

\* Logger::Log(level, message, console) called by the application
LogCall(n, level, message, console) ==
    /\ n \in 1..nodes
    /\ cerr_out' = <<>>
    /\ last_call' = Called("Log", n, level, console, "")
    /\ LET calls == Log(n, level, message, console)
       IN IF calls = <<>>
          THEN /\ emit_calls' = <<>> /\ file_out' = EmptyStream
               /\ clog_out' = EmptyStream /\ syslog_out' = <<>> /\ raised' = FALSE
               /\ callback_out' = <<>>
          ELSE EmitLogAll(calls[1])
    /\ UNCHANGED <<logger_vars, stream_vars>>

\* Logger::SetLogLevel(const std::string).  The record of the call keeps the
\* threshold the node had before it.
SetLogLevelString(n, name) ==
    /\ n \in 1..nodes
    /\ last_call' = Called("SetLogLevelString", n, log_level[n], FALSE, name)
    /\ cerr_out' = <<>>
    /\ UNCHANGED <<nodes, parent_logger, component_name, log_facility,
                   output_to_console, colorize, log_file, syslog_open,
                   color_possible, custom, held, destroyed, time_digits, time_modulo, stream_vars>>
    /\ IF LevelOfName(name) # <<>>
       THEN /\ log_level' = [log_level EXCEPT ![n] = LevelOfName(name)[1]]
            /\ emit_calls' = <<>> /\ file_out' = EmptyStream
            /\ clog_out' = EmptyStream /\ syslog_out' = <<>>
            /\ callback_out' = <<>> /\ raised' = FALSE
       ELSE LET calls == Log(n, Error, LevelError(name), TRUE)
            IN IF calls = <<>>
               THEN /\ emit_calls' = <<>> /\ file_out' = EmptyStream
                    /\ clog_out' = EmptyStream /\ syslog_out' = <<>>
                    /\ callback_out' = <<>> /\ raised' = FALSE
                    /\ log_level' = [log_level EXCEPT ![n] = Info]
               ELSE /\ EmitLogAll(calls[1])
                    \* an exception of EmitLog leaves SetLogLevel before
                    \* log_level = LogLevel::Info
                    /\ log_level' = IF ~custom /\ EmitThrows(calls[1]) THEN log_level
                                    ELSE [log_level EXCEPT ![n] = Info]

\* ------------------------------------- LoggingBuf and EmitLog, by step
\* Several threads stream into one LoggingBuf.  A step is what a thread does
\* between two accesses of what it shares with the others.
Threads == 1..NumThreads

\* The text thread t appends as piece i of its message k.
Frag(t, k, i) == "t" \o ToString(t) \o "m" \o ToString(k) \o "f" \o ToString(i)

ForgotFlush == <<"Somebody forgot to call std::flush!?">>

\* LoggingBuf::thread_sync, the predicate of signal.wait_for
\* (variant: the predicate lets every thread through)
MayProceedAlways(t) == TRUE

MayProceed(t) == ~busy \/ (busy /\ owning_thread = t)

\* where thread_sync returns to: xsputn's append, or sync's logger->Log
Resume(t, what) == IF what = "xsputn" THEN "put" ELSE "deliver"

\* A call of Log made by a thread: the how-manieth of the thread, on which
\* node, in which of its messages (or timeouts), with which arguments, and
\* what the caller itself had written.
LogRecord(t, kind, n, k, level, text, console, own) ==
    [thread |-> t, kind |-> kind, node |-> n, k |-> k, level |-> level,
     text |-> text, console |-> console, own |-> own,
     nth |-> Cardinality({c \in log_calls : c.thread = t}) + 1]

\* the call of logger->Log by the buffer
BufCall(t, kind, k, level, text, console) ==
    LogRecord(t, kind, buf_logger, k, level, text, console, cur[t])

LoggerFrame == UNCHANGED <<logger_vars, cerr_out, raised, last_call,
                           buf_logger, buf_log_level, buf_console>>
StreamFrame == LoggerFrame /\ UNCHANGED callback_out
\* a step inside a stream call starts no new one
SameOps == UNCHANGED ops

\* xsputn or sync calls thread_sync, which locks buffer_mutex and finds the
\* predicate true (it takes the buffer) or false (it waits, the mutex released)
Enter(t, what) ==
    /\ pc[t] = "idle"
    /\ buffer_mutex = 0
    /\ ops' = ops + 1
    /\ op' = [op EXCEPT ![t] = what]
    /\ IF MayProceed(t)
       THEN /\ busy' = TRUE
            /\ owning_thread' = IF busy THEN owning_thread ELSE t
            /\ pc' = [pc EXCEPT ![t] = Resume(t, what)]
       ELSE /\ pc' = [pc EXCEPT ![t] = "waiting"]
            /\ UNCHANGED <<busy, owning_thread>>
    /\ UNCHANGED <<buffer_mutex, buf_str, logger_mutex, after, call, cur, msgs,
                   log_calls, timeouts, emit_calls, file_out, clog_out,
                   syslog_out>>
    /\ StreamFrame

\* LoggingBuf::xsputn
Xsputn(t) == Enter(t, "xsputn")

\* LoggingBuf::sync, called by std::flush
Sync(t) == Enter(t, "sync")

\* wait_for returns true: notified (or woken, or timed out) with the
\* predicate true
Wake(t) ==
    /\ pc[t] = "waiting"
    /\ buffer_mutex = 0
    /\ MayProceed(t)
    /\ busy' = TRUE
    /\ owning_thread' = IF busy THEN owning_thread ELSE t
    /\ pc' = [pc EXCEPT ![t] = Resume(t, op[t])]
    /\ UNCHANGED <<buffer_mutex, buf_str, logger_mutex, op, after, call, cur,
                   msgs, log_calls, timeouts, emit_calls, file_out, clog_out,
                   syslog_out>>
    /\ StreamFrame /\ SameOps

\* (variant: signal.wait, which has no timeout)
WaitUntimed(t) == pc[t] = "waiting" /\ FALSE /\ UNCHANGED vars

\* wait_for returns false after its second: the thread, holding
\* buffer_mutex, calls logger->Log(LogLevel::Error, "Somebody forgot ...")
Timeout(t) ==
    /\ pc[t] = "waiting"
    /\ buffer_mutex = 0
    /\ ~MayProceed(t)
    /\ buffer_mutex' = t
    /\ timeouts' = timeouts + 1
    /\ log_calls' = log_calls \cup
                       {BufCall(t, "timeout", timeouts + 1, Error, ForgotFlush, FALSE)}
    /\ LET calls == Log(buf_logger, Error, ForgotFlush, FALSE)
       IN /\ call' = [call EXCEPT ![t] = calls]
          /\ pc' = [pc EXCEPT ![t] = IF calls = <<>> THEN "reset" ELSE "emit"]
          /\ after' = [after EXCEPT ![t] = "reset"]
    /\ UNCHANGED <<busy, owning_thread, buf_str, logger_mutex, op, cur, msgs,
                   emit_calls, file_out, clog_out, syslog_out>>
    /\ StreamFrame /\ SameOps

\* (variant: the forced reset also empties the string)
ResetClearsText(t) ==
    /\ pc[t] = "reset"
    /\ busy' = TRUE
    /\ owning_thread' = t
    /\ buffer_mutex' = 0
    /\ buf_str' = <<>>
    /\ pc' = [pc EXCEPT ![t] = Resume(t, op[t])]
    /\ UNCHANGED <<logger_mutex, op, after, call, cur, msgs, log_calls,
                   timeouts, emit_calls, file_out, clog_out, syslog_out>>
    /\ StreamFrame /\ SameOps

\* (variant: busy is set again and the owner is left as it was)
ResetLeavesOwner(t) ==
    /\ pc[t] = "reset"
    /\ busy' = TRUE
    /\ buffer_mutex' = 0
    /\ pc' = [pc EXCEPT ![t] = Resume(t, op[t])]
    /\ UNCHANGED <<owning_thread, buf_str, logger_mutex, op, after, call, cur,
                   msgs, log_calls, timeouts, emit_calls, file_out, clog_out,
                   syslog_out>>
    /\ StreamFrame /\ SameOps

\* busy = false; if (!busy) { busy = true; owning_thread = this thread }
\* and thread_sync returns, releasing buffer_mutex
Reset(t) ==
    /\ pc[t] = "reset"
    /\ busy' = TRUE
    /\ owning_thread' = t
    /\ buffer_mutex' = 0
    /\ pc' = [pc EXCEPT ![t] = Resume(t, op[t])]
    /\ UNCHANGED <<buf_str, logger_mutex, op, after, call, cur, msgs, log_calls,
                   timeouts, emit_calls, file_out, clog_out, syslog_out>>
    /\ StreamFrame /\ SameOps

\* Another thread is between its thread_sync and the end of its use of the
\* string (stringbuf::xsputn, str(), str("")), none of which takes a lock.
Racing(t) ==
    \E u \in Threads \ {t} : pc[u] \in {"put", "deliver", "emit", "callback", "lock",
                                        "clear"}
                              /\ op[u] # "none"
                              /\ after[u] # "reset"

\* What stringbuf::xsputn leaves in the string: the piece appended; or, when
\* it runs unsynchronised with another thread's use of the string (a data
\* race), also the piece lost or the string overwritten by it.
AppendOutcomes(t, piece) ==
    IF Racing(t) THEN {buf_str \o piece, buf_str, piece} ELSE {buf_str \o piece}

\* xsputn: return std::stringbuf::xsputn(c, n)
XsputnAppend(t) ==
    /\ pc[t] = "put"
    /\ LET piece == <<Frag(t, msgs[t] + 1, Len(cur[t]) + 1)>>
       IN /\ buf_str' \in AppendOutcomes(t, piece)
          /\ cur' = [cur EXCEPT ![t] = @ \o piece]
    /\ pc' = [pc EXCEPT ![t] = "idle"]
    /\ op' = [op EXCEPT ![t] = "none"]
    /\ UNCHANGED <<busy, owning_thread, buffer_mutex, logger_mutex, after, call,
                   msgs, log_calls, timeouts, emit_calls, file_out, clog_out,
                   syslog_out>>
    /\ StreamFrame /\ SameOps

\* (variant: sync calls Log only when there is text in the buffer)
SyncLogUnlessEmpty(t) ==
    /\ pc[t] = "deliver"
    /\ LET calls == IF buf_str = <<>> THEN <<>>
                    ELSE Log(buf_logger, buf_log_level, buf_str, buf_console)
       IN /\ log_calls' = IF buf_str = <<>> THEN log_calls
                          ELSE log_calls \cup
                                 {BufCall(t, "flush", msgs[t] + 1, buf_log_level,
                                          buf_str, buf_console)}
          /\ call' = [call EXCEPT ![t] = calls]
          /\ pc' = [pc EXCEPT ![t] = IF calls = <<>> THEN "clear" ELSE "emit"]
          /\ after' = [after EXCEPT ![t] = "clear"]
    /\ UNCHANGED <<busy, owning_thread, buffer_mutex, buf_str, logger_mutex, op,
                   cur, msgs, timeouts, emit_calls, file_out, clog_out,
                   syslog_out>>
    /\ StreamFrame /\ SameOps

\* sync: logger->Log(log_level, str(), console), up to the call of EmitLog
SyncLog(t) ==
    /\ pc[t] = "deliver"
    /\ log_calls' = log_calls \cup
                       {BufCall(t, "flush", msgs[t] + 1, buf_log_level, buf_str,
                                buf_console)}
    /\ LET calls == Log(buf_logger, buf_log_level, buf_str, buf_console)
       IN /\ call' = [call EXCEPT ![t] = calls]
          /\ pc' = [pc EXCEPT ![t] = IF calls = <<>> THEN "clear" ELSE "emit"]
          /\ after' = [after EXCEPT ![t] = "clear"]
    /\ UNCHANGED <<busy, owning_thread, buffer_mutex, buf_str, logger_mutex, op,
                   cur, msgs, timeouts, emit_calls, file_out, clog_out,
                   syslog_out>>
    /\ StreamFrame /\ SameOps

\* (variant: the text stays in the buffer)
SyncKeepsText(t) ==
    /\ pc[t] = "clear"
    /\ pc' = [pc EXCEPT ![t] = "release"]
    /\ UNCHANGED <<busy, owning_thread, buffer_mutex, buf_str, logger_mutex, op,
                   after, call, cur, msgs, log_calls, timeouts, emit_calls,
                   file_out, clog_out, syslog_out>>
    /\ StreamFrame /\ SameOps

\* sync: str("")
SyncClear(t) ==
    /\ pc[t] = "clear"
    /\ buf_str' = <<>>
    /\ pc' = [pc EXCEPT ![t] = "release"]
    /\ UNCHANGED <<busy, owning_thread, buffer_mutex, logger_mutex, op, after,
                   call, cur, msgs, log_calls, timeouts, emit_calls, file_out,
                   clog_out, syslog_out>>
    /\ StreamFrame /\ SameOps

\* sync: busy = false; signal.notify_one(); return 0
SyncDone(t) ==
    /\ pc[t] = "release"
    /\ busy' = FALSE
    /\ msgs' = [msgs EXCEPT ![t] = @ + 1]
    /\ cur' = [cur EXCEPT ![t] = <<>>]
    /\ pc' = [pc EXCEPT ![t] = "idle"]
    /\ op' = [op EXCEPT ![t] = "none"]
    /\ UNCHANGED <<owning_thread, buffer_mutex, buf_str, logger_mutex, after,
                   call, log_calls, timeouts, emit_calls, file_out, clog_out,
                   syslog_out>>
    /\ StreamFrame /\ SameOps

\* (variant: what the callback throws leaves EmitLog, Log and sync, and the
\* thread is gone from the call)
EmitEnterUncaught(t) ==
    /\ pc[t] = "emit"
    /\ custom
    /\ \E threw \in BOOLEAN :
          /\ callback_out' = Append(callback_out, CallbackCall(call[t][1], threw))
          /\ pc' = [pc EXCEPT ![t] = IF threw THEN "exited" ELSE after[t]]
    /\ UNCHANGED <<busy, owning_thread, buffer_mutex, buf_str, logger_mutex, op,
                   after, call, cur, msgs, log_calls, timeouts, file_out,
                   clog_out, emit_calls, syslog_out>>
    /\ LoggerFrame /\ SameOps

\* EmitLog is entered.  Logger: syslog() if the facility is Syslog.
\* CustomLogger: the callback is called (what it will do, return or throw,
\* is written down here); no lock is taken.
EmitEnter(t) ==
    /\ pc[t] = "emit"
    /\ IF custom
       THEN /\ \E threw \in BOOLEAN :
                 callback_out' = Append(callback_out, CallbackCall(call[t][1], threw))
            /\ pc' = [pc EXCEPT ![t] = "callback"]
            /\ UNCHANGED syslog_out
       ELSE /\ syslog_out' = EmitSyslog(call[t][1], syslog_out)
            /\ pc' = [pc EXCEPT ![t] =
                         IF EmitNeedsLock(call[t][1]) THEN "lock" ELSE after[t]]
            /\ UNCHANGED callback_out
    /\ UNCHANGED <<busy, owning_thread, buffer_mutex, buf_str, logger_mutex, op,
                   after, call, cur, msgs, log_calls, timeouts, file_out,
                   clog_out, emit_calls>>
    /\ LoggerFrame /\ SameOps

\* CustomLogger: the callback returns, or what it threw is caught, and
\* EmitLog returns
CallbackReturn(t) ==
    /\ pc[t] = "callback"
    /\ pc' = [pc EXCEPT ![t] = after[t]]
    /\ call' = [call EXCEPT ![t] = <<>>]
    /\ UNCHANGED <<busy, owning_thread, buffer_mutex, buf_str, logger_mutex, op,
                   after, cur, msgs, log_calls, timeouts, emit_calls, file_out,
                   clog_out, syslog_out>>
    /\ StreamFrame /\ SameOps

\* (variant: the block is entered without the lock being free)
EmitLockNoWait(t) ==
    /\ pc[t] = "lock"
    /\ logger_mutex' = t
    /\ pc' = [pc EXCEPT ![t] = "locked"]
    /\ UNCHANGED <<busy, owning_thread, buffer_mutex, buf_str, op, after, call,
                   cur, msgs, log_calls, timeouts, emit_calls, file_out,
                   clog_out, syslog_out>>
    /\ StreamFrame /\ SameOps

\* std::lock_guard<std::mutex> lock(logger_mutex)
EmitLock(t) ==
    /\ pc[t] = "lock"
    /\ logger_mutex = 0
    /\ logger_mutex' = t
    /\ pc' = [pc EXCEPT ![t] = "locked"]
    /\ UNCHANGED <<busy, owning_thread, buffer_mutex, buf_str, op, after, call,
                   cur, msgs, log_calls, timeouts, emit_calls, file_out,
                   clog_out, syslog_out>>
    /\ StreamFrame /\ SameOps

\* Another thread is inside SetLogFacility, which takes no lock, past its
\* log_file.close() and before its store of the facility.
Setting(t) == pc[t] \in {"set_open", "set_store"}
SinkRace(t) == \E u \in Threads \ {t} : Setting(u)

\* What `log_file << stamped_message` leaves in the file: the line, or
\* nothing when the stream is closed; when it runs unsynchronised with
\* another thread's close() or open() of the stream (a data race), either.
FilePutOutcomes(t) ==
    IF SinkRace(t)
    THEN {FilePut(call[t][1], file_out), file_out,
          Put(file_out, StampedMessage(call[t][1].level, call[t][1].message))}
    ELSE {FilePut(call[t][1], file_out)}

\* log_file << stamped_message
EmitFilePut(t) ==
    /\ pc[t] = "locked"
    /\ EmitToFile(call[t][1])
    /\ file_out' \in FilePutOutcomes(t)
    /\ pc' = [pc EXCEPT ![t] = "file_endl"]
    /\ UNCHANGED <<busy, owning_thread, buffer_mutex, buf_str, logger_mutex, op,
                   after, call, cur, msgs, log_calls, timeouts, emit_calls,
                   clog_out, syslog_out>>
    /\ StreamFrame /\ SameOps

\* log_file << std::endl
EmitFileEndl(t) ==
    /\ pc[t] = "file_endl"
    /\ file_out' = FileEndl(call[t][1], file_out)
    /\ pc' = [pc EXCEPT ![t] = "filed"]
    /\ UNCHANGED <<busy, owning_thread, buffer_mutex, buf_str, logger_mutex, op,
                   after, call, cur, msgs, log_calls, timeouts, emit_calls,
                   clog_out, syslog_out>>
    /\ StreamFrame /\ SameOps

\* the file part of the locked block is behind the thread
PastFile(t) ==
    pc[t] = "filed" \/ (pc[t] = "locked" /\ ~EmitToFile(call[t][1]))

\* std::clog << (colour) << stamped_message << (reset)
EmitClogPut(t) ==
    /\ PastFile(t)
    /\ EmitToClog(call[t][1])
    /\ clog_out' = ClogPut(call[t][1], clog_out)
    /\ pc' = [pc EXCEPT ![t] = "clog_endl"]
    /\ UNCHANGED <<busy, owning_thread, buffer_mutex, buf_str, logger_mutex, op,
                   after, call, cur, msgs, log_calls, timeouts, emit_calls,
                   file_out, syslog_out>>
    /\ StreamFrame /\ SameOps

\* std::clog << std::endl
EmitClogEndl(t) ==
    /\ pc[t] = "clog_endl"
    /\ clog_out' = Endl(clog_out)
    /\ pc' = [pc EXCEPT ![t] = "written"]
    /\ UNCHANGED <<busy, owning_thread, buffer_mutex, buf_str, logger_mutex, op,
                   after, call, cur, msgs, log_calls, timeouts, emit_calls,
                   file_out, syslog_out>>
    /\ StreamFrame /\ SameOps

\* the locked block is left and EmitLog, then Log, return
PastClog(t) ==
    pc[t] = "written" \/ (PastFile(t) /\ ~EmitToClog(call[t][1]))

\* (variant: EmitLog returns with logger_mutex still locked)
EmitUnlockKeepsLock(t) ==
    /\ PastClog(t)
    /\ pc' = [pc EXCEPT ![t] = after[t]]
    /\ call' = [call EXCEPT ![t] = <<>>]
    /\ UNCHANGED <<busy, owning_thread, buffer_mutex, buf_str, logger_mutex, op,
                   after, cur, msgs, log_calls, timeouts, emit_calls, file_out,
                   clog_out, syslog_out>>
    /\ StreamFrame /\ SameOps

EmitUnlock(t) ==
    /\ PastClog(t)
    /\ logger_mutex' = 0
    /\ pc' = [pc EXCEPT ![t] = after[t]]
    /\ call' = [call EXCEPT ![t] = <<>>]
    /\ UNCHANGED <<busy, owning_thread, buffer_mutex, buf_str, op, after, cur,
                   msgs, log_calls, timeouts, emit_calls, file_out, clog_out,
                   syslog_out>>
    /\ StreamFrame /\ SameOps

\* A thread calls Log(level, message, console) on a node itself; what it says
\* names the thread and the call.
Said(t, k) == <<"t" \o ToString(t) \o "s" \o ToString(k)>>

LogEnter(t, n, level, console) ==
    /\ pc[t] = "idle"
    /\ ops' = ops + 1
    /\ msgs' = [msgs EXCEPT ![t] = @ + 1]
    /\ log_calls' = log_calls \cup
                       {LogRecord(t, "log", n, msgs[t] + 1, level,
                                  Said(t, msgs[t] + 1), console, Said(t, msgs[t] + 1))}
    /\ LET calls == Log(n, level, Said(t, msgs[t] + 1), console)
       IN /\ call' = [call EXCEPT ![t] = calls]
          /\ pc' = [pc EXCEPT ![t] = IF calls = <<>> THEN "idle" ELSE "emit"]
          /\ after' = [after EXCEPT ![t] = "idle"]
    /\ UNCHANGED <<busy, owning_thread, buffer_mutex, buf_str, logger_mutex, op,
                   cur, timeouts, emit_calls, file_out, clog_out, syslog_out>>
    /\ StreamFrame

\* Logger::SetLogFacility on the root, step by step; no step takes
\* logger_mutex or any other lock.
SetFrame ==
    UNCHANGED <<nodes, parent_logger, component_name, log_level,
                output_to_console, colorize, color_possible, custom, held, destroyed, time_digits, time_modulo,
                emit_calls, file_out, clog_out, syslog_out, callback_out,
                raised, last_call, buf_vars, op, after, cur, msgs, log_calls,
                timeouts>>

\* if (parent_logger) return; if (log_facility != facility) { closelog() or
\* log_file.close() as the facility was Syslog or File
SetEnter(t, n, facility, filename) ==
    /\ pc[t] = "idle"
    /\ n \in 1..nodes
    /\ ops' = ops + 1
    /\ IF FacilityKept(n, facility)
       THEN UNCHANGED <<pc, call, syslog_open, log_file>>
       ELSE /\ pc' = [pc EXCEPT ![t] = "set_open"]
            /\ call' = [call EXCEPT ![t] =
                           <<[node |-> n, facility |-> facility, file |-> filename]>>]
            /\ syslog_open' = IF log_facility[n] = "Syslog" THEN FALSE ELSE syslog_open
            /\ log_file' = IF log_facility[n] = "File"
                           THEN [log_file EXCEPT ![n] = ""] ELSE log_file
    /\ UNCHANGED <<log_facility, cerr_out>>
    /\ SetFrame

\* openlog() for Syslog; log_file.open(filename) for File, and the line on
\* std::cerr when the file is not open after it
SetOpen(t) ==
    /\ pc[t] = "set_open"
    /\ LET a == call[t][1]
       IN /\ syslog_open' = IF a.facility = "Syslog" THEN TRUE ELSE syslog_open
          /\ log_file' = IF a.facility = "File" /\ a.file \in Openable
                         THEN [log_file EXCEPT ![a.node] = a.file] ELSE log_file
          /\ cerr_out' = IF a.facility = "File" /\ a.file \notin Openable
                         THEN Append(cerr_out,
                                     <<"ERROR: Logger unable to open log file for writing: ",
                                       a.file>>)
                         ELSE cerr_out
    /\ pc' = [pc EXCEPT ![t] = "set_store"]
    /\ UNCHANGED <<log_facility, call, ops>>
    /\ SetFrame

\* log_facility = facility (None when the file did not open)
SetStore(t) ==
    /\ pc[t] = "set_store"
    /\ LET a == call[t][1]
       IN log_facility' = [log_facility EXCEPT ![a.node] = NewFacility(a.facility, a.file)]
    /\ pc' = [pc EXCEPT ![t] = "idle"]
    /\ call' = [call EXCEPT ![t] = <<>>]
    /\ UNCHANGED <<log_file, syslog_open, cerr_out, ops>>
    /\ SetFrame

\* Logger::SetLogLevel(level) called by a thread while others stream:
\* log_level = level, a store into an atomic
LevelStore(n, level) ==
    /\ n \in 1..nodes
    /\ log_level[n] # level
    /\ log_level' = [log_level EXCEPT ![n] = level]
    /\ UNCHANGED <<nodes, parent_logger, component_name, log_facility,
                   output_to_console, colorize, log_file, syslog_open,
                   color_possible, custom, held, destroyed, time_digits, time_modulo, out_vars,
                   stream_vars>>

\* the thread ends (or goes on to other work for good) with text appended
\* and not flushed
Abandon(t) ==
    /\ pc[t] = "idle"
    /\ cur[t] # <<>>
    /\ pc' = [pc EXCEPT ![t] = "exited"]
    /\ UNCHANGED <<busy, owning_thread, buffer_mutex, buf_str, logger_mutex, op,
                   after, call, cur, msgs, log_calls, timeouts, emit_calls,
                   file_out, clog_out, syslog_out>>
    /\ StreamFrame /\ SameOps

\* ------------------------------------------------------ specifications
\* One thread makes the calls, so each call runs to its end in one step.

\* SpecRoot: a root Logger alone, every threshold and every facility.
InitRootOnly ==
    /\ InitRoot("", FALSE, FALSE)
    /\ InitOut
    /\ InitBuf(1, Info, FALSE) /\ InitThreads

NextRoot ==
    \/ \E level \in LogLevels : SetLogLevel(1, level)
    \/ \E f \in LogFacilities : \E fn \in FileArgs(f) : SetLogFacility(1, f, fn)
    \/ \E level \in LogLevels, console \in BOOLEAN :
          LogCall(1, level, Hello, console)

SpecRoot == InitRootOnly /\ [][NextRoot]_vars

\* Spec: a tree of unlabelled Loggers, each with its own threshold; the
\* root logs to the console or not at all.
Init ==
    /\ InitRoot("", FALSE, FALSE)
    /\ InitOut
    /\ InitBuf(1, Info, FALSE) /\ InitThreads

Next ==
    \/ \E p \in 1..MaxNodes : Construct("", p, FALSE)
    \/ \E n \in 1..MaxNodes, level \in LogLevels : SetLogLevel(n, level)
    \/ \E n \in 1..MaxNodes, f \in {"None", "Console"} : SetLogFacility(n, f, "")
    \/ \E n \in 1..MaxNodes, level \in LogLevels :
          LogCall(n, level, Hello, FALSE)

Spec == Init /\ [][Next]_vars

\* SpecFacility: a tree under a Logger or a CustomLogger, whose nodes are all
\* asked to change the facility.
InitFacility ==
    /\ InitRoot("", FALSE, FALSE) \/ InitCustomRoot("")
    /\ InitOut
    /\ InitBuf(1, Info, FALSE) /\ InitThreads

NextFacility ==
    \/ \E p \in 1..MaxNodes : Construct("", p, FALSE)
    \/ \E n \in 1..MaxNodes, f \in LogFacilities :
          \E fn \in FileArgs(f) : SetLogFacility(n, f, fn)
    \/ \E n \in 1..MaxNodes, level \in {Info, Debug}, console \in BOOLEAN :
          LogCall(n, level, Hello, console)

SpecFacility == InitFacility /\ [][NextFacility]_vars

\* SpecNames: a chain of Loggers (root, child, grandchild, ...) whose nodes
\* are given thresholds by name, under a root that logs to each facility in
\* turn.
Chars(a, b, c, d, e, f, g, h) == SelectSeq(<<a, b, c, d, e, f, g, h>>, LAMBDA x : x # "")

LevelNames ==
    { Chars("C", "R", "I", "T", "I", "C", "A", "L"),
      Chars("E", "R", "R", "O", "R", "", "", ""),
      Chars("W", "A", "R", "N", "I", "N", "G", ""),
      Chars("I", "N", "F", "O", "", "", "", ""),
      Chars("D", "E", "B", "U", "G", "", "", ""),
      Chars("W", "a", "r", "n", "i", "n", "g", ""),
      Chars("d", "e", "b", "u", "g", "", "", ""),
      Chars("c", "R", "i", "T", "i", "C", "a", "L"),
      Chars("f", "o", "o", "b", "a", "r", "", ""),
      Chars("", "", "", "", "", "", "", "") }

NextNames ==
    \/ Construct("", nodes, FALSE)
    \/ \E f \in LogFacilities : \E fn \in FileArgs(f) \cap (Openable \cup {""}) :
          SetLogFacility(1, f, fn)
    \/ \E n \in 1..MaxNodes, name \in LevelNames : SetLogLevelString(n, name)

SpecNames == Init /\ [][NextNames]_vars

\* SpecPath: a tree of Loggers with component names and force-console flags.
ComponentNames == {"", "LTST", "NET"}

InitPath ==
    /\ \E name \in ComponentNames, otc \in BOOLEAN : InitRoot(name, otc, FALSE)
    /\ InitOut
    /\ InitBuf(1, Info, FALSE) /\ InitThreads

NextPath ==
    \/ \E p \in 1..MaxNodes, name \in ComponentNames, otc \in BOOLEAN :
          Construct(name, p, otc)
    \/ \E n \in 1..MaxNodes, console \in BOOLEAN : LogCall(n, Info, Hello, console)

SpecPath == InitPath /\ [][NextPath]_vars

\* A root and its child "LTST"; the threads share one of the child's or the
\* root's stream buffers.
StreamSetups ==
    { \* the child's info_buf, the root logging to the console
      [facility |-> "Console", logger |-> 2, level |-> Info, console |-> FALSE],
      \* the root's console_buf, the root logging to a file
      [facility |-> "File", logger |-> 1, level |-> Info, console |-> TRUE],
      \* the child's error_buf, the root logging to syslog
      [facility |-> "Syslog", logger |-> 2, level |-> Error, console |-> FALSE],
      \* the child's debug_buf, which the Info thresholds suppress
      [facility |-> "Console", logger |-> 2, level |-> Debug, console |-> FALSE] }

\* those of them that write lines to the console or the file
LineSetups == {b \in StreamSetups : b.level = Info}

InitStreamOf(setups) ==
    /\ nodes = 2
    /\ parent_logger = <<0, 1>>
    /\ component_name = <<"", "LTST">>
    /\ log_level = <<Info, Info>>
    /\ \E b \in setups :
          /\ log_facility = <<b.facility, "Console">>
          /\ log_file = <<IF b.facility = "File" THEN "a.log" ELSE "", "">>
          /\ syslog_open = (b.facility = "Syslog")
          /\ InitBuf(b.logger, b.level, b.console)
    /\ output_to_console = <<FALSE, FALSE>>
    /\ colorize = <<FALSE, FALSE>>
    /\ color_possible = FALSE
    /\ custom = FALSE /\ InitLife /\ InitTime
    /\ InitOut
    /\ InitThreads

\* SpecStream: the threads stream, flush or fail to flush, wait and run
\* into the timeout of their wait.
InitStream == InitStreamOf(LineSetups)

\* EmitLog, step by step
Emission(t) ==
    \/ EmitEnter(t)
    \/ EmitLock(t)
    \/ EmitFilePut(t)
    \/ EmitFileEndl(t)
    \/ EmitClogPut(t)
    \/ EmitClogEndl(t)
    \/ EmitUnlock(t)

\* what a thread does inside xsputn and sync when no wait times out
Streaming(t) ==
    \/ Wake(t)
    \/ XsputnAppend(t)
    \/ SyncLog(t)
    \/ SyncClear(t)
    \/ SyncDone(t)
    \/ Emission(t)

ThreadStep(t) ==
    \/ ops < MaxOps /\ Xsputn(t)
    \/ ops < MaxOps /\ Sync(t)
    \/ timeouts < MaxTimeouts /\ Timeout(t)
    \/ Reset(t)
    \/ Abandon(t)
    \/ Streaming(t)

NextStream == \E t \in Threads : ThreadStep(t)

SpecStream == InitStream /\ [][NextStream]_vars

\* SpecFlush: no wait runs into its timeout and no thread gives up a message;
\* the root logs to the console, a file or syslog.
InitFlush == InitStreamOf(StreamSetups)

FlushStep(t) ==
    \/ ops < MaxFlushOps /\ Xsputn(t)
    \/ ops < MaxFlushOps /\ Sync(t)
    \/ Streaming(t)

NextFlush == \E t \in Threads : FlushStep(t)

SpecFlush == InitFlush /\ [][NextFlush]_vars

\* SpecFair: the root logs to a file; thread 1 has streamed a first piece
\* into the root's console_buf and owns it.  From there on as SpecStream, with any number of timeouts,
\* and every thread that is inside xsputn or sync is scheduled again: a
\* wait_for returns within its second, and a thread that is not waiting runs
\* on.  Whether a thread makes its next call at all is left to it.
InitFair ==
    /\ nodes = 2
    /\ parent_logger = <<0, 1>>
    /\ component_name = <<"", "LTST">>
    /\ log_level = <<Info, Info>>
    /\ log_facility = <<"File", "Console">>
    /\ log_file = <<"a.log", "">>
    /\ syslog_open = FALSE
    /\ output_to_console = <<FALSE, FALSE>>
    /\ colorize = <<FALSE, FALSE>>
    /\ color_possible = FALSE
    /\ custom = FALSE /\ InitLife /\ InitTime
    /\ InitOut
    /\ buf_logger = 1 /\ buf_log_level = Info /\ buf_console = TRUE
    /\ busy = TRUE /\ owning_thread = 1
    /\ buffer_mutex = 0 /\ logger_mutex = 0
    /\ buf_str = <<Frag(1, 1, 1)>>
    /\ pc = [t \in 1..NumThreads |-> "idle"]
    /\ op = [t \in 1..NumThreads |-> "none"]
    /\ after = [t \in 1..NumThreads |-> "none"]
    /\ call = [t \in 1..NumThreads |-> <<>>]
    /\ cur = [t \in 1..NumThreads |-> IF t = 1 THEN <<Frag(1, 1, 1)>> ELSE <<>>]
    /\ msgs = [t \in 1..NumThreads |-> 0]
    /\ log_calls = {}
    /\ timeouts = 0
    /\ ops = 0

Progress(t) ==
    \/ Timeout(t)
    \/ Reset(t)
    \/ Streaming(t)

FairStep(t) ==
    \/ ops < MaxFairOps /\ Xsputn(t)
    \/ ops < MaxFairOps /\ Sync(t)
    \/ Abandon(t)
    \/ Progress(t)

NextFair == \E t \in Threads : FairStep(t)

SpecFair ==
    /\ InitFair
    /\ [][NextFair]_vars
    /\ \A t \in Threads : WF_vars(Progress(t))

\* SpecEmit: the threads call Log on the nodes of the tree themselves.
InitEmit == InitStreamOf({b \in StreamSetups : b.level # Debug})

EmitStep(t) ==
    \/ \E n \in 1..nodes, console \in BOOLEAN :
          ops < MaxLogs /\ LogEnter(t, n, Info, console)
    \/ Emission(t)

NextEmit == \E t \in Threads : EmitStep(t)

SpecEmit == InitEmit /\ [][NextEmit]_vars

\* SpecFile: the root logs to a file; one thread calls Log on the root and
\* on its child "LTST", at any level, under thresholds that let some of the
\* calls through and not others.
FileThresholds == {Error, Info, Debug}

InitFile ==
    /\ nodes = 2
    /\ parent_logger = <<0, 1>>
    /\ component_name = <<"", "LTST">>
    /\ \E l1, l2 \in FileThresholds : log_level = <<l1, l2>>
    /\ log_facility = <<"File", "Console">>
    /\ log_file = <<"a.log", "">>
    /\ syslog_open = FALSE
    /\ InitBuf(1, Info, FALSE)
    /\ output_to_console = <<FALSE, FALSE>>
    /\ colorize = <<FALSE, FALSE>>
    /\ color_possible = FALSE
    /\ custom = FALSE /\ InitLife /\ InitTime
    /\ InitOut
    /\ InitThreads

\* no call asks for the console, so EmitLog writes to the file alone
FileStep(t) ==
    \/ \E n \in 1..nodes, level \in LogLevels :
          t = 1 /\ ops < MaxFileLogs /\ LogEnter(t, n, level, FALSE)
    \/ EmitEnter(t)
    \/ EmitLock(t)
    \/ EmitFilePut(t)
    \/ EmitFileEndl(t)
    \/ EmitUnlock(t)

NextFile == \E t \in Threads : FileStep(t)

SpecFile == InitFile /\ [][NextFile]_vars

\* SpecCustom: a tree under a CustomLogger, with component names,
\* force-console flags and thresholds of its own at every node; the callback
\* returns or throws.
CustomNames == {"", "NET"}
CustomLevels == {Warning, Info}

InitCustom ==
    /\ \E name \in CustomNames : InitCustomRoot(name)
    /\ InitOut
    /\ InitBuf(1, Info, FALSE) /\ InitThreads

NextCustom ==
    \/ \E p \in 1..MaxNodes, name \in CustomNames, otc \in BOOLEAN :
          Construct(name, p, otc)
    \/ \E n \in 1..MaxNodes, level \in CustomLevels : SetLogLevel(n, level)
    \/ \E n \in 1..MaxNodes, level \in CustomLevels, console \in BOOLEAN :
          LogCall(n, level, Hello, console)

SpecCustom == InitCustom /\ [][NextCustom]_vars

\* SpecCustomFlush: a CustomLogger and its child "LTST"; the threads stream
\* into the child's info buffer and flush, or call Log on a node themselves;
\* the callback returns or throws.  No wait runs into its timeout.
InitCustomFlush ==
    /\ nodes = 2
    /\ parent_logger = <<0, 1>>
    /\ component_name = <<"", "LTST">>
    /\ log_level = <<Info, Info>>
    /\ log_facility = <<"Console", "Console">>
    /\ log_file = <<"", "">>
    /\ syslog_open = FALSE
    /\ InitBuf(2, Info, FALSE)
    /\ output_to_console = <<FALSE, FALSE>>
    /\ colorize = <<FALSE, FALSE>>
    /\ color_possible = FALSE
    /\ custom = TRUE /\ InitLife /\ InitTime
    /\ InitOut
    /\ InitThreads

CustomFlushStep(t) ==
    \/ ops < MaxCustomOps /\ Xsputn(t)
    \/ ops < MaxCustomOps /\ Sync(t)
    \/ \E n \in 1..nodes :
          ops < MaxCustomOps /\ cur[t] = <<>> /\ LogEnter(t, n, Info, FALSE)
    \/ Wake(t)
    \/ XsputnAppend(t)
    \/ SyncLog(t)
    \/ SyncClear(t)
    \/ SyncDone(t)
    \/ EmitEnter(t)
    \/ CallbackReturn(t)

NextCustomFlush == \E t \in Threads : CustomFlushStep(t)

SpecCustomFlush == InitCustomFlush /\ [][NextCustomFlush]_vars

\* SpecSink: a root and its children; the root is asked for every facility,
\* also the one it has, with two files that open and one that does not.
SinkFiles(facility) ==
    IF facility = "File" THEN Openable \cup FileNames ELSE {""}

NextSink ==
    \/ Construct("", 1, FALSE)
    \/ \E f \in LogFacilities : \E fn \in SinkFiles(f) : SetLogFacility(1, f, fn)
    \/ \E n \in 1..MaxNodes, level \in {Info, Debug}, console \in BOOLEAN :
          LogCall(n, level, Hello, console)

SpecSink == InitRootOnly /\ [][NextSink]_vars

\* SpecSetting: the root logs to a file; the threads call Log on the root
\* and its child, and SetLogFacility on the root for the console and for
\* files.
InitSetting == InitStreamOf({b \in StreamSetups : b.facility = "File"})

SettingStep(t) ==
    \/ \E n \in 1..nodes :
          ops < MaxSetOps /\ LogEnter(t, n, Info, FALSE)
    \/ \E f \in {"Console", "File"} : \E fn \in FileArgs(f) :
          ops < MaxSetOps /\ SetEnter(t, 1, f, fn)
    \/ SetOpen(t)
    \/ SetStore(t)
    \/ Emission(t)

NextSetting == \E t \in Threads : SettingStep(t)

SpecSetting == InitSetting /\ [][NextSetting]_vars

\* SpecColor: a tree of Loggers on a terminal that can show colour or one
\* that cannot; every node is asked to colorize and not to, and logs to the
\* console.
InitColor ==
    /\ \E cp \in BOOLEAN : InitRoot("", FALSE, cp)
    /\ InitOut
    /\ InitBuf(1, Info, FALSE) /\ InitThreads

NextColor ==
    \/ \E p \in 1..MaxNodes : Construct("", p, FALSE)
    \/ \E n \in 1..MaxNodes, colorize_output \in BOOLEAN : Colorize(n, colorize_output)
    \/ \E n \in 1..MaxNodes, level \in {Error, Info} : LogCall(n, level, Hello, FALSE)

SpecColor == InitColor /\ [][NextColor]_vars

\* The streams of a Logger.  The constructor builds six buffers,
\* info_buf(this, Info), warning_buf(this, Warning), error_buf(this, Error),
\* critical_buf(this, Critical), debug_buf(this, Debug) and
\* console_buf(this, Info, true), and the member streams info, warning,
\* error, critical, debug and console on them, each on the buffer of its name.
Streams == {"info", "warning", "error", "critical", "debug", "console"}

BufOf(stream) ==
    CASE stream = "info" -> [level |-> Info, console |-> FALSE]
      [] stream = "warning" -> [level |-> Warning, console |-> FALSE]
      [] stream = "error" -> [level |-> Error, console |-> FALSE]
      [] stream = "critical" -> [level |-> Critical, console |-> FALSE]
      [] stream = "debug" -> [level |-> Debug, console |-> FALSE]
      [] stream = "console" -> [level |-> Info, console |-> TRUE]

\* (variant: the default of the switch for every level)
GetLoggingStreamDefault(level) == "info"

\* Logger::GetLoggingStream(level)
GetLoggingStream(level) ==
    CASE level = Critical -> "critical"
      [] level = Error -> "error"
      [] level = Warning -> "warning"
      [] level = Info -> "info"
      [] level = Debug -> "debug"
      [] OTHER -> "info"

\* LOGGER_CRITICAL .. LOGGER_DEBUG under a given LOGGER_LEVEL: the stream
\* the macro streams the message into and flushes, or nothing at all.
\* (LOGGER_INFO has no definition under LOGGER_LEVEL_CRITICAL.)
MacroDefined(level, logger_level) == ~(level = Info /\ logger_level = Critical)
MacroExpansion(level, logger_level) ==
    IF level <= logger_level THEN <<GetLoggingStream(level)>> ELSE <<>>

\* How the program gets at a stream, what it means by it (the level and
\* the console flag the message is to have), and the stream it gets.
Request(way, level, console, stream) ==
    [op |-> "stream", way |-> way, level |-> level, console |-> console,
     stream |-> stream]

StreamRequests ==
    {Request("member", BufOf(m).level, m = "console", m) : m \in Streams}
      \cup {Request("GetLoggingStream", l, FALSE, GetLoggingStream(l)) : l \in LogLevels}
      \cup {Request("macro", l, FALSE, MacroExpansion(l, ll)[1]) :
               l \in {x \in LogLevels : MacroExpansion(x, Debug) # <<>>},
               ll \in {Debug}}

\* SpecChannel: a root at Debug that logs to a file; the threads stream into
\* one of the root's streams, got at in one of the three ways, and flush.
InitChannel ==
    /\ nodes = 1
    /\ parent_logger = <<0>>
    /\ component_name = <<"">>
    /\ log_level = <<Debug>>
    /\ log_facility = <<"File">>
    /\ log_file = <<"a.log">>
    /\ syslog_open = FALSE
    /\ output_to_console = <<FALSE>>
    /\ colorize = <<FALSE>>
    /\ color_possible = FALSE
    /\ custom = FALSE /\ InitLife /\ InitTime
    /\ emit_calls = <<>> /\ file_out = EmptyStream /\ clog_out = EmptyStream
    /\ syslog_out = <<>> /\ cerr_out = <<>> /\ callback_out = <<>>
    /\ raised = FALSE
    /\ \E r \in StreamRequests :
          /\ last_call = <<r>>
          /\ InitBuf(1, BufOf(r.stream).level, BufOf(r.stream).console)
    /\ InitThreads

ChannelStep(t) ==
    \/ ops < MaxChannelOps /\ Xsputn(t)
    \/ ops < MaxChannelOps /\ Sync(t)
    \/ Streaming(t)

NextChannel == \E t \in Threads : ChannelStep(t)

SpecChannel == InitChannel /\ [][NextChannel]_vars

\* ---- lifetime.  A Logger lives in a std::shared_ptr (LoggerPointer); the
\* owners of a Logger are the LoggerPointers of the program and the member
\* parent_logger of each of its children; no Logger has a member that
\* points to a child.
\* (variant: parent_logger owns nothing, as a plain or weak pointer would)
UseCountOfProgram(n, h, d) == IF n \in h THEN 1 ELSE 0

\* use_count() of the LoggerPointers to n, h the Loggers the program holds
\* and d those destroyed
UseCount(n, h, d) ==
    (IF n \in h THEN 1 ELSE 0)
      + Cardinality({m \in 1..nodes : m \notin d /\ parent_logger[m] = n})

RECURSIVE Destroyed(_, _, _)
\* The Loggers destroyed once a LoggerPointer to n has gone: n if none is
\* left, and then, its member parent_logger gone with it, so on from its
\* parent.
Destroyed(n, h, d) ==
    IF n = 0 \/ n \in d \/ UseCount(n, h, d) > 0
    THEN d
    ELSE Destroyed(parent_logger[n], h, d \cup {n})

\* The program lets go of its LoggerPointer to n (reset(), or the pointer
\* goes out of scope).  Logger::~Logger of the root calls closelog() if the
\* facility is Syslog and closes log_file if it is File; the destructor
\* of the member log_file closes it in any case.
Release(n) ==
    /\ n \in held
    /\ held' = held \ {n}
    /\ destroyed' = Destroyed(n, held', destroyed)
    /\ LET gone == destroyed' \ destroyed
       IN /\ syslog_open' =
                IF \E m \in gone : parent_logger[m] = 0 /\ log_facility[m] = "Syslog"
                THEN FALSE ELSE syslog_open
          /\ log_file' = [m \in 1..nodes |-> IF m \in gone THEN "" ELSE log_file[m]]
    /\ emit_calls' = <<>> /\ file_out' = EmptyStream /\ clog_out' = EmptyStream
    /\ syslog_out' = <<>> /\ cerr_out' = <<>> /\ raised' = FALSE
    /\ callback_out' = <<>>
    /\ last_call' = Called("reset", n, Info, FALSE, "")
    /\ UNCHANGED <<nodes, parent_logger, component_name, log_level, log_facility,
                   output_to_console, colorize, color_possible, custom,
                   time_digits, time_modulo, stream_vars>>

\* SpecLife: the program makes Loggers under those it holds, sets the sink
\* and logs through those it holds, and lets go of them in any order.
NextLife ==
    \/ \E p \in held : Construct("", p, FALSE)
    \/ \E n \in held, f \in LogFacilities :
          \E fn \in SinkFiles(f) : SetLogFacility(n, f, fn)
    \/ \E n \in held : LogCall(n, Info, Hello, FALSE)
    \/ \E n \in held : Release(n)

SpecLife == InitRootOnly /\ [][NextLife]_vars

\* SpecNew: a root made by any of the root constructors, Logger(output_to_console),
\* Logger(process_name, output_to_console), Logger(process_name,
\* component_name, output_to_console), Logger(component_name, nullptr,
\* output_to_console), CustomLogger(callback) or
\* CustomLogger(component_name, callback), and then used as in SpecRoot.
InitNew ==
    /\ \/ \E name \in CustomNames, otc \in BOOLEAN, cp \in BOOLEAN :
             InitRoot(name, otc, cp)
       \/ \E name \in CustomNames : InitCustomRoot(name)
    /\ InitOut
    /\ InitBuf(1, Info, FALSE) /\ InitThreads

SpecNew == InitNew /\ [][NextRoot]_vars

\* SpecContend: threads that flush every message they start (none gives
\* up: a flush is never out of reach of a thread with text appended), on a
\* buffer they contend for, with waits that may run into their timeout.
ContendStep(t) ==
    \/ ops < MaxContendOps /\ Xsputn(t)
    \/ cur[t] # <<>> /\ Sync(t)
    \/ timeouts < MaxTimeouts /\ Timeout(t)
    \/ Reset(t)
    \/ Streaming(t)

NextContend == \E t \in Threads : ContendStep(t)

SpecContend == InitStream /\ [][NextContend]_vars

\* SpecDrop: buffers whose messages are dropped at first, the child's
\* debug_buf under thresholds of Info and the root's info_buf under the
\* facility None, while threads raise and lower the thresholds and set the
\* facility to Console and back; no wait runs into its timeout.
DropSetups ==
    { [facility |-> "Console", logger |-> 2, level |-> Debug, console |-> FALSE],
      [facility |-> "None", logger |-> 1, level |-> Info, console |-> FALSE] }

InitDrop == InitStreamOf(DropSetups)

DropStep(t) ==
    \/ ops < MaxDropOps /\ Xsputn(t)
    \/ ops < MaxDropOps /\ Sync(t)
    \/ \E n \in 1..MaxNodes, level \in {Info, Debug} : LevelStore(n, level)
    \/ \E f \in {"Console", "None"} : ops < MaxDropOps /\ SetEnter(t, 1, f, "")
    \/ SetOpen(t)
    \/ SetStore(t)
    \/ Wake(t)
    \/ XsputnAppend(t)
    \/ SyncLog(t)
    \/ SyncClear(t)
    \/ SyncDone(t)
    \/ EmitEnter(t)
    \/ EmitLock(t)
    \/ EmitClogPut(t)
    \/ EmitClogEndl(t)
    \/ EmitUnlock(t)

NextDrop == \E t \in Threads : DropStep(t)

SpecDrop == InitDrop /\ [][NextDrop]_vars

\* SpecLocks: as SpecFair, and the threads also call Log on the child
\* themselves: every way a thread comes to buffer_mutex, to the wait on the
\* buffer and to logger_mutex.
LockStep(t) ==
    \/ ops < MaxLockOps /\ Xsputn(t)
    \/ ops < MaxLockOps /\ Sync(t)
    \/ ops < MaxLockOps /\ LogEnter(t, nodes, Info, FALSE)
    \/ Abandon(t)
    \/ Progress(t)

NextLocks == \E t \in Threads : LockStep(t)

SpecLocks ==
    /\ InitFair
    /\ [][NextLocks]_vars
    /\ \A t \in Threads : WF_vars(Progress(t))

\* ---- the fraction of the second in GetTimestamp
\* operator<< of an integer: its decimal digits
DigitChars == <<"0", "1", "2", "3", "4", "5", "6", "7", "8", "9">>

RECURSIVE Decimal(_)
Decimal(v) ==
    IF v < 10 THEN <<DigitChars[v + 1]>>
    ELSE Decimal(v \div 10) \o <<DigitChars[(v % 10) + 1]>>

\* std::setfill('0') << std::setw(w): filled on the left up to w characters,
\* and never cut
SetW(text, w) ==
    IF Len(text) >= w THEN text ELSE [i \in 1..(w - Len(text)) |-> "0"] \o text

\* << std::setfill('0') << std::setw(time_digits)
\* << (now_us.time_since_epoch().count()) % time_modulo
Fraction(now_us, digits, modulo) == SetW(Decimal(now_us % modulo), digits)

LogTimePrecisions == {"Milliseconds", "Microseconds"}

\* Logger::SetTimePrecision(precision)
SetTimePrecision(n, precision) ==
    /\ n \in 1..nodes
    /\ time_digits' = [time_digits EXCEPT ![n] =
                           IF precision = "Milliseconds" THEN 3 ELSE 6]
    /\ time_modulo' = [time_modulo EXCEPT ![n] =
                           IF precision = "Milliseconds" THEN 1000 ELSE 1000000]
    /\ emit_calls' = <<>> /\ file_out' = EmptyStream /\ clog_out' = EmptyStream
    /\ syslog_out' = <<>> /\ cerr_out' = <<>> /\ raised' = FALSE
    /\ callback_out' = <<>>
    /\ last_call' = Called("SetTimePrecision", n, Info, FALSE, precision)
    /\ UNCHANGED <<nodes, parent_logger, component_name, log_level, log_facility,
                   output_to_console, colorize, log_file, syslog_open,
                   color_possible, custom, held, destroyed, stream_vars>>

\* Logger::GetTimestamp() on node n when the clock reads now_us microseconds
\* since the epoch; the record of the call keeps the reading and the digits
\* written behind the "."
GetTimestampAt(n, now_us) ==
    /\ n \in 1..nodes
    /\ emit_calls' = <<>> /\ file_out' = EmptyStream /\ clog_out' = EmptyStream
    /\ syslog_out' = <<>> /\ cerr_out' = <<>> /\ raised' = FALSE
    /\ callback_out' = <<>>
    /\ last_call' = <<[op |-> "GetTimestamp", node |-> n, now_us |-> now_us,
                       fraction |-> Fraction(now_us, time_digits[n],
                                             time_modulo[n])]>>
    /\ UNCHANGED <<logger_vars, stream_vars>>

\* readings of the clock, in microseconds since the epoch
Clock == {0, 7, 999, 1000, 1001, 123456, 500000, 999000, 999999, 1000000,
          1123456, 61000042}

\* SpecTime: Loggers are made, their precision is set, and timestamps are
\* taken at readings of the clock.
NextTime ==
    \/ Construct("", 1, FALSE)
    \/ \E n \in 1..MaxNodes, precision \in LogTimePrecisions :
          SetTimePrecision(n, precision)
    \/ \E n \in 1..MaxNodes, now_us \in Clock : GetTimestampAt(n, now_us)

SpecTime == InitRootOnly /\ [][NextTime]_vars

\* ------------------------------------------------------------ claims
\* the node without a parent
Root == CHOOSE n \in 1..nodes : parent_logger[n] = 0
LastIs(what) == last_call # <<>> /\ last_call[1].op = what

RECURSIVE PathNodes(_)
\* A node and its ancestors up to the root.
PathNodes(n) ==
    IF parent_logger[n] = 0 THEN {n} ELSE {n} \cup PathNodes(parent_logger[n])

\* C1: on a root Logger whose facility is not None, a Log call of severity S
\* makes one EmitLog call (of severity S) if S <= the root's threshold, and
\* none otherwise.
C1_RootEmitsIffWithinThreshold ==
    (/\ LastIs("Log")
     /\ parent_logger[last_call[1].node] = 0
     /\ log_facility[last_call[1].node] # "None")
    => /\ (emit_calls # <<>>) <=> (last_call[1].level <= log_level[last_call[1].node])
       /\ Len(emit_calls) <= 1
       /\ emit_calls # <<>> => emit_calls[1].level = last_call[1].level

C1_Witness ==
    /\ LastIs("Log") /\ last_call[1].node = Root
    /\ log_facility[Root] = "File" /\ log_level[Root] = Warning
    /\ last_call[1].level = Warning /\ emit_calls # <<>>

\* C2: a Log call at a node reaches EmitLog at the root exactly when the
\* root's facility is not None and the severity passes the threshold of the
\* node and of each of its ancestors, the root included.
C2_EveryNodeOnPathFilters ==
    LastIs("Log") =>
        ((emit_calls # <<>>) <=>
            /\ log_facility[Root] # "None"
            /\ \A m \in PathNodes(last_call[1].node) :
                  last_call[1].level <= log_level[m])

\* a grandchild and its parent at Debug under a root at Info: Debug is dropped
C2_Witness ==
    /\ LastIs("Log") /\ nodes >= 3
    /\ last_call[1].node = 3 /\ parent_logger[3] = 2 /\ parent_logger[2] = 1
    /\ last_call[1].level = Debug
    /\ log_level[3] = Debug /\ log_level[2] = Debug /\ log_level[Root] = Info
    /\ log_facility[Root] = "Console"
    /\ emit_calls = <<>>

\* "[name] " for a named node, nothing for an unnamed one
Tag(n) == IF component_name[n] = "" THEN "" ELSE "[" \o component_name[n] \o "] "

RECURSIVE TagsRootFirst(_)
TagsRootFirst(n) ==
    IF parent_logger[n] = 0 THEN Tag(n)
    ELSE TagsRootFirst(parent_logger[n]) \o Tag(n)

\* C9: the text EmitLog gets is the logged text preceded by "[name] " of each
\* named node on the path, the root's first and the originator's last.
C9_LabelsRootToOriginator ==
    (LastIs("Log") /\ emit_calls # <<>>) =>
        Render(emit_calls[1].message)
            = TagsRootFirst(last_call[1].node) \o Render(Hello)

\* an unnamed root, its child NET and NET's child LTST, which logs "hello"
C9_Witness ==
    /\ LastIs("Log") /\ emit_calls # <<>>
    /\ nodes >= 3 /\ last_call[1].node = 3
    /\ parent_logger[3] = 2 /\ parent_logger[2] = 1
    /\ component_name[1] = "" /\ component_name[2] = "NET"
    /\ component_name[3] = "LTST"
    /\ Render(emit_calls[1].message) = "[NET] [LTST] hello"

\* C10: SetLogFacility on a node with a parent changes no Logger (neither
\* the root's facility, file and syslog registration nor the node's own
\* stored value), and GetLogFacility of every node is the root's stored value.
C10_FacilityBelongsToRoot ==
    /\ [](\A n \in 1..nodes : GetLogFacility(n) = log_facility[Root])
    /\ [][(/\ last_call' # <<>>
            /\ last_call'[1].op = "SetLogFacility"
            /\ parent_logger[last_call'[1].node] # 0)
           => UNCHANGED logger_vars]_vars

\* a child was asked for Syslog while the root logs to the file
C10_Witness ==
    /\ LastIs("SetLogFacility") /\ parent_logger[last_call[1].node] # 0
    /\ last_call[1].arg = "Syslog"
    /\ log_facility[Root] = "File" /\ log_file[Root] = "a.log"
    /\ log_facility[last_call[1].node] = "Console"
    /\ GetLogFacility(last_call[1].node) = "File"

\* ---- stream buffer claims
\* the threads that have appended text and not flushed it
MidMessage == {t \in Threads : cur[t] # <<>>}

\* C3, as stated: in every reachable state at most one thread is in the
\* middle of a message (has appended text and not yet flushed it), so that
\* a second thread's append never proceeds before the first has flushed.
C3_AtMostOneMidMessage == Cardinality(MidMessage) <= 1

\* C3, amended: as long as no wait on the buffer has run into its timeout,
\* at most one thread is in the middle of a message.
C3_AtMostOneMidMessageUntilTimeout ==
    timeouts = 0 => Cardinality(MidMessage) <= 1

\* one thread is in the middle of its message and another waits to append
C3_Witness ==
    /\ timeouts = 0
    /\ \E t, u \in Threads :
          /\ t # u /\ cur[t] # <<>> /\ busy /\ owning_thread = t
          /\ pc[u] = "waiting" /\ op[u] = "xsputn"

\* C7: a thread that finds the buffer owned by another thread and waits
\* becomes the owner and goes on with its append or flush, whether the owner
\* flushes or never does.
C7_WaiterBecomesOwner ==
    \A u \in Threads :
        (pc[u] = "waiting")
            ~> (pc[u] \in {"put", "deliver"} /\ busy /\ owning_thread = u)

\* the owner has gone without flushing, and the waiter's wait has timed out
\* and made it the owner
C7_Witness ==
    \E t, u \in Threads :
        /\ t # u /\ pc[t] = "exited" /\ cur[t] # <<>>
        /\ timeouts > 0 /\ pc[u] = "put" /\ busy /\ owning_thread = u

\* the pieces of a text
Pieces(text) == {text[i] : i \in 1..Len(text)}

\* C8: text that a thread appended and never flushes (the thread is gone) is
\* in the text of no call of Log the buffer makes for a flush.
C8_UnflushedTextNeverDelivered ==
    \A t \in Threads :
        pc[t] = "exited" =>
            \A c \in log_calls :
                c.kind = "flush" => Pieces(c.text) \cap Pieces(cur[t]) = {}

\* ---- what the sinks should hold
\* the rendered lines of a stream, or of the syslog
Lines(done) == [i \in 1..Len(done) |-> Render(done[i])]
SyslogTexts == [i \in 1..Len(syslog_out) |-> Render(syslog_out[i].text)]
Range(seq) == {seq[i] : i \in 1..Len(seq)}
Count(seq, x) == Cardinality({i \in 1..Len(seq) : seq[i] = x})

\* the text the root should be handed for a call, and its line in a sink
MessageBody(c) == TagsRootFirst(c.node) \o Render(c.own)
MessageLine(c) ==
    GetTimestamp \o " [" \o LogLevelString(c.level) \o "] " \o MessageBody(c)

\* a thread is inside EmitLog
Emitting(t) ==
    pc[t] \in {"emit", "callback", "lock", "locked", "file_endl", "filed",
               "clog_endl", "written"}

\* the flushes whose call of Log has returned
Flushed ==
    {c \in log_calls :
        c.kind = "flush" /\ (c.k <= msgs[c.thread]
                                \/ pc[c.thread] \in {"clear", "release"})}

\* the sink holds one line per flushed message, which is that message's
\* line, and nothing else
OneLineEach(lines, Expected(_)) ==
    \A x \in Range(lines) \cup {Expected(c) : c \in Flushed} :
        Count(lines, x) = Cardinality({c \in Flushed : Expected(c) = x})

\* the buffer's messages pass every threshold on the way to a root that logs
Passes ==
    /\ GetLogFacility(buf_logger) # "None"
    /\ \A m \in PathNodes(buf_logger) : buf_log_level <= log_level[m]

\* C4: when every thread flushes what it streams and no wait times out,
\* then, whenever no thread is inside EmitLog, each sink of the root (the
\* file, std::clog, syslog) holds exactly one line per flushed message, and
\* each line is the line of one message: the appends of one thread, in
\* order, nothing of another thread's message in it and nothing missing.
C4_OneLinePerMessage ==
    (Passes /\ \A t \in Threads : ~Emitting(t)) =>
        /\ log_facility[Root] = "File" => OneLineEach(Lines(file_out.done), MessageLine)
        /\ (log_facility[Root] = "Console" \/ buf_console) =>
              OneLineEach(Lines(clog_out.done), MessageLine)
        /\ log_facility[Root] = "Syslog" => OneLineEach(SyslogTexts, MessageBody)

\* two threads have each streamed and flushed a message into the root's file
C4_Witness ==
    /\ log_facility[Root] = "File" /\ Passes
    /\ \A t \in Threads : ~Emitting(t)
    /\ Len(file_out.done) >= 2 /\ Len(clog_out.done) >= 2
    /\ \E c, d \in Flushed :
          c.thread # d.thread /\ c.own # <<>> /\ d.own # <<>>

\* a thread is inside the block of EmitLog that logger_mutex guards
InSection(t) ==
    pc[t] \in {"locked", "file_endl", "filed", "clog_endl", "written"}

\* the line a thread inside EmitLog is writing
WritingLine(t) ==
    LET c == CHOOSE c \in log_calls : c.thread = t /\ c.k = msgs[t] IN MessageLine(c)

\* C5: at most one thread at a time is inside the guarded block of EmitLog,
\* whatever nodes the threads log on; every line in the file and on std::clog
\* is the whole line of one call, and a line being written is that of the
\* thread inside the block.
C5_OneWriterAtATime ==
    /\ Cardinality({t \in Threads : InSection(t)}) <= 1
    /\ \A x \in Range(Lines(file_out.done)) \cup Range(Lines(clog_out.done)) :
          \E c \in log_calls : x = MessageLine(c)
    /\ \A out \in {file_out, clog_out} :
          out.cur # <<>> =>
              \E t \in Threads : InSection(t) /\ Render(out.cur) = WritingLine(t)

\* a thread has written its line to the file and not yet the line's end,
\* and another thread, logging on another node, stands at the lock
C5_Witness ==
    \E t, u \in Threads :
        /\ pc[t] = "file_endl" /\ pc[u] = "lock" /\ logger_mutex = t
        /\ file_out.cur # <<>>
        /\ \E c, d \in log_calls :
              c.thread = t /\ d.thread = u /\ c.node # d.node

\* no other thread has touched the buffer
Alone(t) ==
    \A u \in Threads \ {t} : pc[u] = "idle" /\ msgs[u] = 0 /\ cur[u] = <<>>

\* the appends of message k of thread t, n of them
Appends(t, k, n) == [i \in 1..n |-> Frag(t, k, i)]

\* C6: for a thread alone on the buffer, each flush makes exactly one call of
\* the buffer's node's Log, with the buffer's level and console flag and the
\* message's appends concatenated in order as the text; after the flush the
\* buffer is not busy and its text is empty.
C6_FlushDeliversOnce ==
    \A t \in Threads :
        Alone(t) =>
            LET mine == {c \in log_calls : c.thread = t}
                inside == Emitting(t) \/ pc[t] \in {"clear", "release"}
            IN /\ Cardinality(mine) = msgs[t] + (IF inside THEN 1 ELSE 0)
               /\ \A k \in 1..msgs[t] : Cardinality({c \in mine : c.k = k}) = 1
               /\ \A c \in mine :
                     /\ c.kind = "flush" /\ c.node = buf_logger
                     /\ c.level = buf_log_level /\ c.console = buf_console
                     /\ Render(c.text) = Render(Appends(t, c.k, Len(c.own)))
               /\ (pc[t] = "idle" /\ cur[t] = <<>>) => (~busy /\ buf_str = <<>>)

\* a thread alone has flushed a message of two appends, then one of one
C6_Witness ==
    \E t \in Threads :
        /\ Alone(t) /\ msgs[t] = 2 /\ pc[t] = "idle" /\ cur[t] = <<>>
        /\ \E c, d \in log_calls :
              /\ c.thread = t /\ c.k = 1 /\ Len(c.own) = 2
              /\ d.thread = t /\ d.k = 2 /\ Len(d.own) = 1
              /\ Render(d.text) = "t" \o ToString(t) \o "m2f1"

\* ---- thresholds, sinks and console flags
\* the call a step makes
StepIs(what) == last_call' # <<>> /\ last_call'[1].op = what

\* a constructor's step: the new node has its parent's threshold, and the
\* nodes there were keep theirs
ThresholdCopied ==
    StepIs("Logger") =>
        /\ log_level'[nodes'] = log_level[parent_logger'[nodes']]
        /\ \A m \in 1..nodes : log_level'[m] = log_level[m]

\* a SetLogLevel step: the node has the threshold asked for, the others theirs
ThresholdSetLocally ==
    StepIs("SetLogLevel") =>
        /\ log_level'[last_call'[1].node] = last_call'[1].level
        /\ \A m \in 1..nodes \ {last_call'[1].node} : log_level'[m] = log_level[m]

\* C11: a Logger constructed under a parent starts with the parent's own
\* threshold as it is then; SetLogLevel on a node sets that node's threshold
\* and leaves the threshold of every other node as it was; and GetLogLevel
\* of a node is always the node's own stored value.
C11_ThresholdCopiedThenLocal ==
    /\ [](\A n \in 1..nodes : GetLogLevel(n) = log_level[n])
    /\ [][ThresholdCopied /\ ThresholdSetLocally]_vars

\* node 3 took Debug from its parent, node 2, whose threshold was then set to
\* Error; the root is still at Info
C11_Witness ==
    /\ LastIs("SetLogLevel") /\ last_call[1].node = 2 /\ nodes >= 3
    /\ parent_logger[3] = 2 /\ parent_logger[2] = 1
    /\ log_level[1] = Info /\ log_level[2] = Error /\ log_level[3] = Debug

\* the last call wrote nothing anywhere and called nothing
NoOutput ==
    /\ emit_calls = <<>> /\ callback_out = <<>>
    /\ file_out = EmptyStream /\ clog_out = EmptyStream
    /\ syslog_out = <<>> /\ cerr_out = <<>> /\ ~raised

\* C12: while the root's facility is None, a Log call on any node, with any
\* level and console flag, reaches no EmitLog and no callback, writes nothing
\* to std::clog, the file or syslog, and changes no Logger.
C12_NoneMeansNoEffect ==
    /\ []((LastIs("Log") /\ log_facility[Root] = "None") => NoOutput)
    /\ [][(StepIs("Log") /\ log_facility[Root] = "None")
            => UNCHANGED logger_vars]_vars

\* a child, whose own stored facility is Console, was asked to log an Info
\* message with the console flag under a CustomLogger whose facility is None
C12_Witness ==
    /\ LastIs("Log") /\ log_facility[Root] = "None" /\ custom
    /\ parent_logger[last_call[1].node] # 0
    /\ log_facility[last_call[1].node] = "Console"
    /\ last_call[1].level = Info /\ last_call[1].console
    /\ NoOutput

\* ---- thresholds by name
\* the five names, by level
NameOf(level) ==
    CASE level = Critical -> <<"C", "R", "I", "T", "I", "C", "A", "L">>
      [] level = Error -> <<"E", "R", "R", "O", "R">>
      [] level = Warning -> <<"W", "A", "R", "N", "I", "N", "G">>
      [] level = Info -> <<"I", "N", "F", "O">>
      [] level = Debug -> <<"D", "E", "B", "U", "G">>

\* a name that, letter case apart, is none of the five
NoLevelName(name) ==
    \A level \in LogLevels :
        [i \in 1..Len(name) |-> ToUpperChar(name[i])] # NameOf(level)

\* the last call was SetLogLevel(name) with a name that is no level's
SetUnknownName ==
    LastIs("SetLogLevelString") /\ NoLevelName(last_call[1].arg)

\* the ancestors of a node
Ancestors(n) == PathNodes(n) \ {n}

\* C13, as stated: after SetLogLevel(name) with a name that is no level's, on
\* any node with any prior threshold, the node's threshold is Info, exactly
\* one message, of severity Error, has been handed to the sink, and no
\* exception has left the call.
C13_UnknownNameLogsOneError ==
    SetUnknownName =>
        /\ log_level[last_call[1].node] = Info
        /\ Len(emit_calls) = 1 /\ emit_calls[1].level = Error
        /\ ~raised

\* What Logger::SetLogLevel(name) does with such a name, under a root that
\* logs to the console, a file or syslog: the threshold is Info after the
\* call and no exception has left it, but the message goes through Log
\* before the threshold is reset, so it reaches the sink exactly when Error
\* passes the threshold the node had before the call and that of each of
\* its ancestors, and the root's facility is not None.
UnknownNameLogsErrorIfItPasses ==
    (SetUnknownName /\ log_facility[Root] # "AndroidLog") =>
        LET n == last_call[1].node
            prior == last_call[1].level
            passes == /\ log_facility[Root] # "None"
                      /\ Error <= prior
                      /\ \A m \in Ancestors(n) : Error <= log_level[m]
        IN /\ log_level[n] = Info
           /\ ~raised
           /\ Len(emit_calls) = (IF passes THEN 1 ELSE 0)
           /\ passes =>
                 /\ emit_calls[1].level = Error /\ emit_calls[1].console
                 /\ Render(emit_calls[1].message)
                       = "Unknown log level \"" \o Render(last_call[1].arg)
                            \o "\"; setting log level to \"INFO\""
                 /\ Len(clog_out.done) = 1
           /\ ~passes => NoOutput

\* C14: SetLogLevel(name) with one of the five names in any letter case
\* makes GetLogLevel the level of that name and GetLogLevelString the name
\* in upper case, and logs nothing; LogLevelString and the names' levels
\* are inverse to each other on the five levels.
C14_NamesRoundTrip ==
    /\ \A level \in LogLevels :
          /\ Render(NameOf(level)) = LogLevelString(level)
          /\ LevelOfName(NameOf(level)) = <<level>>
    /\ \A l1, l2 \in LogLevels :
          LogLevelString(l1) = LogLevelString(l2) => l1 = l2
    /\ (LastIs("SetLogLevelString") /\ ~NoLevelName(last_call[1].arg)) =>
          LET n == last_call[1].node
              upper == [i \in 1..Len(last_call[1].arg) |->
                           ToUpperChar(last_call[1].arg[i])]
          IN /\ NameOf(GetLogLevel(n)) = upper
             /\ LogLevelString(GetLogLevel(n)) = Render(upper)
             /\ NoOutput

\* "Warning" was given to a node at Debug: WARNING
C14_Witness ==
    /\ LastIs("SetLogLevelString") /\ Render(last_call[1].arg) = "Warning"
    /\ last_call[1].level = Debug
    /\ GetLogLevel(last_call[1].node) = Warning
    /\ LogLevelString(GetLogLevel(last_call[1].node)) = "WARNING"

\* ---- the file, one thread
\* the k-th call of Log by a thread
CallOf(t, k) == CHOOSE c \in log_calls : c.thread = t /\ c.kind = "log" /\ c.k = k

\* a call passes every threshold from its node up to the root
CallPasses(c) == \A m \in PathNodes(c.node) : c.level <= log_level[m]

RECURSIVE LinesOfCalls(_, _)
\* the lines of the first k calls of a thread that pass, in the order of
\* the calls
LinesOfCalls(t, k) ==
    IF k = 0 THEN <<>>
    ELSE LinesOfCalls(t, k - 1)
            \o (IF CallPasses(CallOf(t, k)) THEN <<MessageLine(CallOf(t, k))>> ELSE <<>>)

\* C15: the root logging to a file and one thread calling Log: whenever the
\* thread is between two calls, the file holds exactly the lines of the
\* calls that passed every threshold on their path, in the order the calls
\* were made, each with the "[LEVEL]" tag of its own call, and no line for
\* a call that was filtered; while a call is running, the lines before it
\* are in the file already.
C15_FileLinesInSubmissionOrder ==
    /\ pc[1] = "idle" =>
          /\ Lines(file_out.done) = LinesOfCalls(1, msgs[1])
          /\ file_out.cur = <<>>
    /\ Emitting(1) =>
          /\ CallPasses(CallOf(1, msgs[1]))
          /\ \/ Lines(file_out.done) = LinesOfCalls(1, msgs[1] - 1)
             \/ Lines(file_out.done) = LinesOfCalls(1, msgs[1])

\* three calls, at Warning, Debug and Error under thresholds that filter
\* Debug: two lines, WARNING then ERROR
C15_Witness ==
    /\ pc[1] = "idle" /\ msgs[1] = 3
    /\ CallOf(1, 1).level = Warning /\ CallOf(1, 2).level = Debug
    /\ CallOf(1, 3).level = Error /\ CallOf(1, 3).node = 2
    /\ ~CallPasses(CallOf(1, 2))
    /\ Lines(file_out.done)
          = << "<timestamp> [WARNING] t1s1", "<timestamp> [ERROR] [LTST] t1s3" >>

\* ---- what one emission writes
\* the lines a stream was given, none left unfinished
WroteLines(stream, lines) == Lines(stream.done) = lines /\ stream.cur = <<>>

\* C16: what one call of Log that reaches a Logger's EmitLog has written,
\* by the root's facility and the console flag of the emission.  File: one
\* line in the file, and one on std::clog exactly when the flag is true.
\* Console: one line on std::clog, with the flag or without it, and never
\* two.  Syslog: one syslog entry, and one line on std::clog exactly when
\* the flag is true.  So a child's message under a root that logs to a file,
\* no console asked for, is in the file and not on std::clog.
C16_WritesByFacilityAndFlag ==
    (LastIs("Log") /\ ~custom /\ emit_calls # <<>>) =>
        LET c == emit_calls[1]
            line == Render(StampedMessage(c.level, c.message))
            flagged == IF c.console THEN <<line>> ELSE <<>>
        IN /\ c.console = last_call[1].console
           /\ log_facility[Root] = "File" =>
                 /\ WroteLines(file_out, <<line>>)
                 /\ WroteLines(clog_out, flagged)
                 /\ syslog_out = <<>>
           /\ log_facility[Root] = "Console" =>
                 /\ WroteLines(clog_out, <<line>>)
                 /\ WroteLines(file_out, <<>>)
                 /\ syslog_out = <<>>
           /\ log_facility[Root] = "Syslog" =>
                 /\ Len(syslog_out) = 1 /\ syslog_out[1].text = c.message
                 /\ WroteLines(clog_out, flagged)
                 /\ WroteLines(file_out, <<>>)

\* a child logged without the console flag under a root that logs to a
\* file: one line in the file, none on std::clog
C16_Witness ==
    /\ LastIs("Log") /\ ~custom /\ emit_calls # <<>>
    /\ parent_logger[last_call[1].node] # 0 /\ ~last_call[1].console
    /\ log_facility[Root] = "File"
    /\ Len(file_out.done) = 1 /\ clog_out = EmptyStream

\* ---- the console flag on the way up
\* C17: the console flag EmitLog is handed is the flag of the call of Log
\* or-ed with output_to_console of every node from the calling node up to
\* the root, the root included: false exactly when all of them are false,
\* and true at the root whenever the call's flag or any node's setting on
\* the path is true.
C17_ConsoleFlagIsOrOverPath ==
    (LastIs("Log") /\ emit_calls # <<>>) =>
        LET n == last_call[1].node
            settings == {output_to_console[m] : m \in PathNodes(n)}
            asked == last_call[1].console
        IN /\ emit_calls[1].console = (asked \/ TRUE \in settings)
           /\ ~emit_calls[1].console <=> (~asked /\ settings \subseteq {FALSE})
           /\ asked => emit_calls[1].console

\* a grandchild logged without the flag; of the three nodes on the path
\* only the one in the middle forces the console
C17_Witness ==
    /\ LastIs("Log") /\ emit_calls # <<>>
    /\ nodes >= 3 /\ last_call[1].node = 3 /\ ~last_call[1].console
    /\ parent_logger[3] = 2 /\ parent_logger[2] = 1
    /\ output_to_console = <<FALSE, TRUE, FALSE>>
    /\ emit_calls[1].console
    /\ Len(clog_out.done) = 1

AllDelivered ==
    /\ Len(callback_out) = Cardinality(log_calls)
    /\ \A c \in log_calls :
          \E i \in 1..Len(callback_out) :
              /\ Render(callback_out[i].message) = MessageBody(c)
              /\ callback_out[i].level = c.level

\* the step in which a thread's call of EmitLog returns
EmitLogReturns(t) ==
    pc[t] \in {"emit", "callback"} /\ pc'[t] \notin {"emit", "callback"}

\* C19: under a CustomLogger, whether the callback returns or throws,
\* EmitLog returns to its caller: to sync, which goes on to clear the text
\* and release the buffer, or to the caller of Log; no member of any Logger
\* changes and no exception is seen.  When all threads are between calls
\* with nothing left unflushed, the buffer is not busy and its text is
\* empty, and whenever no thread is inside EmitLog the callback has been
\* called once for every call of Log made so far, those after a call that
\* threw included.
C19_CallbackErrorDiscarded ==
    /\ [](~raised)
    /\ []((\A t \in Threads : pc[t] = "idle" /\ cur[t] = <<>>)
             => (~busy /\ buf_str = <<>>))
    /\ []((\A t \in Threads : ~Emitting(t)) => AllDelivered)
    /\ [][\A t \in Threads :
             EmitLogReturns(t) =>
                 (pc'[t] = after[t] /\ after[t] \in {"clear", "idle"}
                    /\ UNCHANGED logger_vars)]_vars

\* the callback threw on a flushed message and was called again for a later
\* one; all threads are between calls and the buffer is free and empty
C19_Witness ==
    /\ Len(callback_out) >= 2
    /\ callback_out[1].threw /\ ~callback_out[2].threw
    /\ \E c \in log_calls :
          c.kind = "flush" /\ Render(callback_out[1].message) = MessageBody(c)
    /\ \A t \in Threads : pc[t] = "idle" /\ cur[t] = <<>>
    /\ ~busy /\ buf_str = <<>>
    /\ AllDelivered

\* ---- a log file that cannot be opened
\* the last call was SetLogFacility(File, filename) on the root for a file
\* that cannot be opened
FailedOpen ==
    /\ LastIs("SetLogFacility") /\ last_call[1].node = Root
    /\ last_call[1].arg = "File" /\ last_call[1].file \notin Openable

\* the step of such a call
FailedOpenStep ==
    /\ StepIs("SetLogFacility") /\ last_call'[1].node = Root
    /\ last_call'[1].arg = "File" /\ last_call'[1].file \notin Openable

\* the root logs nowhere, holds no file and no syslog registration, one
\* line of error went to std::cerr and no exception was raised
FellBackToNone ==
    /\ log_facility[Root] = "None"
    /\ log_file[Root] = "" /\ ~syslog_open
    /\ Len(cerr_out) = 1
    /\ Render(cerr_out[1])
          = "ERROR: Logger unable to open log file for writing: " \o last_call[1].file
    /\ ~raised

\* C20, as stated: after SetLogFacility(File, path) on the root with a file
\* that cannot be opened, whatever the root logged to before, the root's
\* facility is None, what it held open is closed, one error was reported
\* and no exception raised.
C20_FailedOpenFallsBackToNone == FailedOpen => FellBackToNone

\* C20, amended: SetLogFacility(File, path) on a root whose facility is not
\* File already, with a file that cannot be opened, leaves the facility
\* None, the syslog registration closed and no file open, one error on
\* std::cerr and no exception; on a root whose facility is File already the
\* call changes nothing and reports nothing, the root going on to log to
\* the file it has.  While the root's facility is None a call of Log
\* produces no output, and only SetLogFacility changes the facility.
C20_FailedOpenFallsBackUnlessFile ==
    /\ [][(FailedOpenStep /\ log_facility[Root] # "File") => FellBackToNone']_vars
    /\ [][(FailedOpenStep /\ log_facility[Root] = "File")
            => (UNCHANGED logger_vars /\ cerr_out' = <<>> /\ ~raised')]_vars
    /\ []((LastIs("Log") /\ log_facility[Root] = "None") => NoOutput)
    /\ [][~StepIs("SetLogFacility") => log_facility'[Root] = log_facility[Root]]_vars

\* the root, not logging to a file, was asked for a file in a directory
\* that does not exist
C20_Witness ==
    /\ FailedOpen /\ FellBackToNone
    /\ last_call[1].file = "/nodir/b.log"
    /\ nodes >= 2

\* ---- the facility asked for is the one the root has
\* the step of SetLogFacility on the root for the facility it has
SameKindStep ==
    /\ StepIs("SetLogFacility") /\ last_call'[1].node = Root
    /\ last_call'[1].arg = log_facility[Root]

\* C21: SetLogFacility on the root for the facility the root has changes no
\* member of any Logger (facility, file, syslog registration), reports
\* nothing and raises nothing, whatever file name comes with it; a root that
\* logs to a file goes on logging to that file.
C21_SameKindIsNoOp ==
    /\ [][SameKindStep =>
             (UNCHANGED logger_vars /\ cerr_out' = <<>> /\ ~raised')]_vars
    /\ []((LastIs("Log") /\ log_facility[Root] = "File" /\ emit_calls # <<>>) =>
             (log_file[Root] \in Openable /\ Len(file_out.done) = 1))

\* the root logs to a.log and was asked for File on c.log: still a.log
C21_Witness ==
    /\ LastIs("SetLogFacility") /\ last_call[1].node = Root
    /\ last_call[1].arg = "File" /\ last_call[1].file = "c.log"
    /\ log_facility[Root] = "File" /\ log_file[Root] = "a.log"

\* ---- setting the sink while messages are emitted
\* C22: no thread is inside SetLogFacility's change of the root's facility,
\* file and syslog registration while another thread is inside EmitLog or
\* inside such a change itself, and no thread stands in EmitLog's write to
\* the file with the file closed.
C22_SinkSettingExcludesEmission ==
    /\ \A t, u \in Threads :
          (t # u /\ Setting(t)) => (~Emitting(u) /\ ~Setting(u))
    /\ \A t \in Threads :
          (pc[t] = "locked" /\ EmitToFile(call[t][1])) => log_file[Root] # ""

\* ---- one emission at a time
\* a thread is writing a message out: inside the guarded block of
\* Logger::EmitLog, or inside the callback of a CustomLogger
WritingOut(t) == InSection(t) \/ pc[t] = "callback"

\* C23: at most one thread at a time is writing a message out at the root,
\* the root being a Logger or a CustomLogger.
C23_OneEmissionAtATime == Cardinality({t \in Threads : WritingOut(t)}) <= 1

\* ---- the facility the platform does not have
\* C24: under a Logger whose facility is AndroidLog (the program is not
\* built for Android) a call of Log raises an exception exactly when the
\* message passes the threshold of every node on its path, that is, when it
\* reaches EmitLog; and no call raises an exception in any other case,
\* whatever the facility, the thresholds and the kind of root.
C24_UnsupportedFacilityRaises ==
    /\ (LastIs("Log") /\ ~custom /\ log_facility[Root] = "AndroidLog") =>
          LET passes == \A m \in PathNodes(last_call[1].node) :
                            last_call[1].level <= log_level[m]
          IN /\ raised <=> passes
             /\ Len(emit_calls) = (IF passes THEN 1 ELSE 0)
    /\ raised =>
          /\ LastIs("Log")
          /\ ~custom /\ log_facility[Root] = "AndroidLog" /\ emit_calls # <<>>

\* a child logged under a root whose facility is AndroidLog, and the call
\* raised
C24_Witness ==
    /\ LastIs("Log") /\ ~custom /\ log_facility[Root] = "AndroidLog"
    /\ parent_logger[last_call[1].node] # 0
    /\ last_call[1].level = Info
    /\ raised /\ Len(emit_calls) = 1

\* ---- forwarding and filtering
\* the last call was Log on a node with a parent, under a root that logs,
\* and the node's own threshold accepted the message
ChildAccepted ==
    /\ LastIs("Log") /\ parent_logger[last_call[1].node] # 0
    /\ log_facility[Root] # "None"
    /\ last_call[1].level <= log_level[last_call[1].node]

\* C25, as stated: a message that the calling child's threshold accepted is
\* passed on by every node between the child and the root whatever that
\* node's threshold, so that it reaches EmitLog whenever the root's own
\* threshold accepts it.
C25_AncestorsDoNotFilter ==
    (ChildAccepted /\ last_call[1].level <= log_level[Root]) => emit_calls # <<>>

\* C25, amended: every ancestor filters again: a message that the calling
\* child's threshold accepted reaches EmitLog exactly when the threshold of
\* each of the child's ancestors, the root and the nodes in between,
\* accepts it too; the first ancestor whose threshold it exceeds drops it.
C25_EveryAncestorFiltersAgain ==
    ChildAccepted =>
        ((emit_calls # <<>>) <=>
            \A m \in Ancestors(last_call[1].node) :
                last_call[1].level <= log_level[m])

\* a grandchild and the root at Debug, the node between them at Info: the
\* grandchild's Debug message is dropped on the way
C25_Witness ==
    /\ ChildAccepted /\ nodes >= 3
    /\ last_call[1].node = 3 /\ parent_logger[3] = 2 /\ parent_logger[2] = 1
    /\ last_call[1].level = Debug
    /\ log_level[3] = Debug /\ log_level[2] = Info /\ log_level[Root] = Debug
    /\ emit_calls = <<>>

\* ---- colour
\* C26, as stated: IsColorized of a node is the node's own flag, a copy of
\* the parent's taken at construction and from then on changed by Colorize
\* on that node alone: after Colorize(TRUE) on a child, where colour is
\* possible, IsColorized of the child is true, the parent's regardless.
C26_ColorFlagIsOwnCopy ==
    /\ \A n \in 1..nodes : IsColorized(n) = colorize[n]
    /\ (LastIs("Colorize") /\ color_possible) =>
          IsColorized(last_call[1].node) = last_call[1].console

\* what Colorize on a node changes: that node's stored flag, true when
\* asked for and possible
ColorizeSetsOwnFlag ==
    StepIs("Colorize") =>
        /\ colorize'[last_call'[1].node] = (last_call'[1].console /\ color_possible)
        /\ \A m \in 1..nodes \ {last_call'[1].node} : colorize'[m] = colorize[m]

\* what the constructor stores in a child: what IsColorized of the parent
\* answers
ColorCopiedAtConstruction ==
    StepIs("Logger") =>
        /\ colorize'[nodes'] = IsColorized(parent_logger'[nodes'])
        /\ \A m \in 1..nodes : colorize'[m] = colorize[m]

\* C26, amended: IsColorized of every node is the flag of the root, now and
\* not as it was at construction: Colorize on the root changes what
\* IsColorized returns on every descendant; Colorize on a child changes the
\* child's own stored flag (a copy, taken at construction, of what
\* IsColorized answered then) and neither what IsColorized returns on the
\* child or on any other node nor the colour of what is written, which is
\* the root's.
C26_ColorBelongsToRoot ==
    /\ [](\A n \in 1..nodes : IsColorized(n) = colorize[Root])
    /\ []((LastIs("Log") /\ emit_calls # <<>>) =>
             (clog_out.done[1][1] = "\\033[1m" <=>
                 (colorize[Root] /\ last_call[1].level = Error)))
    /\ [][ColorizeSetsOwnFlag /\ ColorCopiedAtConstruction]_vars

\* colour is possible; the root was told not to colorize and then its child
\* was told to: the child's own flag is set and IsColorized of the child is
\* false
C26_Witness ==
    /\ LastIs("Colorize") /\ last_call[1].node = 2 /\ last_call[1].console
    /\ color_possible /\ nodes >= 2 /\ parent_logger[2] = 1
    /\ colorize[2] /\ ~colorize[Root]
    /\ ~IsColorized(2)

\* ---- IsDebugging
\* C27: IsDebugging of a node is true exactly when the node's own threshold
\* is Debug, whatever the thresholds of its parent and of the root; after
\* SetLogLevel(level) on a node it is true of that node exactly when level
\* is Debug.
C27_DebuggingIffOwnThresholdDebug ==
    /\ \A n \in 1..nodes : IsDebugging(n) <=> (log_level[n] = Debug)
    /\ LastIs("SetLogLevel") =>
          (IsDebugging(last_call[1].node) <=> (last_call[1].level = Debug))

\* a child was set to Debug under a root at Warning, and another child is
\* at Info
C27_Witness ==
    /\ LastIs("SetLogLevel") /\ nodes >= 3
    /\ last_call[1].node = 2 /\ last_call[1].level = Debug
    /\ parent_logger[2] = 1 /\ parent_logger[3] = 1
    /\ log_level[Root] = Warning /\ log_level[3] = Info
    /\ IsDebugging(2) /\ ~IsDebugging(Root) /\ ~IsDebugging(3)

\* ---- the streams
\* the member stream the claim speaks of for a severity
StreamOfSeverity(level) ==
    CASE level = Critical -> "critical"
      [] level = Error -> "error"
      [] level = Warning -> "warning"
      [] level = Info -> "info"
      [] level = Debug -> "debug"

\* C28: the member stream of a severity and GetLoggingStream of that
\* severity are the stream whose buffer has that severity and no console
\* flag; a LOGGER_ macro streams into it and flushes, or is compiled to
\* nothing; the console stream's buffer has Info and the console flag.
\* Every flush of a stream calls Log on the node with the severity and the
\* console flag meant, so that under a root at Debug that logs to a file the
\* message is in the file with the tag of its severity, and on std::clog
\* exactly when it went through the console stream.
C28_StreamsDeliverAtOwnSeverity ==
    /\ \A level \in LogLevels :
          /\ BufOf(StreamOfSeverity(level)) = [level |-> level, console |-> FALSE]
          /\ GetLoggingStream(level) = StreamOfSeverity(level)
          /\ \A logger_level \in LogLevels :
                MacroExpansion(level, logger_level)
                    \in {<<>>, <<StreamOfSeverity(level)>>}
    /\ BufOf("console") = [level |-> Info, console |-> TRUE]
    /\ LastIs("stream") =>
          /\ \A c \in log_calls :
                /\ c.kind = "flush" /\ c.node = Root
                /\ c.level = last_call[1].level
                /\ c.console = last_call[1].console
          /\ (\A t \in Threads : ~Emitting(t)) =>
                /\ Len(file_out.done) = Cardinality(Flushed)
                /\ \A i \in 1..Len(file_out.done) :
                      \E c \in Flushed :
                          /\ Render(file_out.done[i]) = MessageLine(c)
                          /\ file_out.done[i][2]
                                = " [" \o LogLevelString(last_call[1].level) \o "] "
                /\ Len(clog_out.done)
                      = (IF last_call[1].stream = "console"
                         THEN Cardinality(Flushed) ELSE 0)

\* a message went through the console stream: in the file as [INFO] and on
\* std::clog
C28_Witness ==
    /\ LastIs("stream") /\ last_call[1].stream = "console"
    /\ \A t \in Threads : ~Emitting(t)
    /\ Len(file_out.done) = 1 /\ Len(clog_out.done) = 1
    /\ file_out.done[1][2] = " [INFO] "
    /\ \E c \in Flushed : c.own # <<>> /\ c.console /\ c.level = Info

\* ---- lifetime
Alive == (1..nodes) \ destroyed
\* the root lets go of its file or of its registration with syslog
ReleasesSink ==
    \/ log_file[Root] # "" /\ log_file'[Root] # log_file[Root]
    \/ syslog_open /\ ~syslog_open'
RootDestroyedLast == Root \in destroyed' \ destroyed /\ destroyed' = 1..nodes
SinkChanged ==
    /\ last_call'[1].op = "SetLogFacility" /\ last_call'[1].node = Root
    /\ log_facility'[Root] # log_facility[Root]

\* C29: every Logger's parent was made before it, so that its chain of
\* parents ends at the root; a Logger is destroyed only when the program
\* holds no pointer to it and all its children are destroyed, so the root
\* goes last; while the root lives, a facility of File has its file
\* open and a facility of Syslog its registration; the root lets go of
\* either only in a change of the sink or in its destruction, after which
\* neither is open.
C29_ParentsOutliveChildren ==
    /\ [](\A n \in 1..nodes :
            /\ parent_logger[n] < n
            /\ Root \in PathNodes(n)
            /\ (n \in Alive /\ n # Root) => parent_logger[n] \in Alive
            /\ (n \in destroyed) => UseCount(n, held, destroyed) = 0)
    /\ [](held \subseteq Alive)
    /\ []((Root \in destroyed) => destroyed = 1..nodes)
    /\ []((Root \in Alive /\ log_facility[Root] = "File")
             => log_file[Root] \in Openable)
    /\ []((Root \in Alive /\ log_facility[Root] = "Syslog") => syslog_open)
    /\ []((Root \in destroyed) => (log_file[Root] = "" /\ ~syslog_open))
    /\ [][ReleasesSink => (SinkChanged \/ RootDestroyedLast)]_vars

\* the program let go of the root first and of the children after; with the
\* last child the root went, and its file with it
C29_Witness ==
    /\ LastIs("reset") /\ last_call[1].node # Root
    /\ nodes = 3 /\ destroyed = 1..nodes
    /\ log_facility[Root] = "File" /\ log_file[Root] = ""

\* ---- a new root
\* nothing has been called on the Loggers since the root's constructor
NewRoot == nodes = 1 /\ last_call = <<>>

\* C30: a root just constructed, a Logger or a CustomLogger, by whichever
\* constructor, has the facility Console and the threshold Info, and
\* IsDebugging() answers false.
C30_NewRootDefaults ==
    NewRoot =>
        /\ GetLogFacility(Root) = "Console"
        /\ GetLogLevel(Root) = Info
        /\ ~IsDebugging(Root)

\* a CustomLogger just made with a component name
C30_Witness ==
    /\ NewRoot /\ custom /\ component_name[Root] = "NET"
    /\ GetLogFacility(Root) = "Console" /\ GetLogLevel(Root) = Info

\* ---- the timeout of the wait
\* the wait of thread t returns false
TimesOut(t) == pc[t] = "waiting" /\ pc'[t] \in {"reset", "emit"}
\* thread t is past the Log call of its timeout and leaves thread_sync
LeavesReset(t) == pc[t] = "reset" /\ pc'[t] # "reset"
TimeoutCalls == {c \in log_calls : c.kind = "timeout"}

\* C31: when the wait of a thread on a buffer another thread owns returns
\* false, the thread calls Log once on the buffer's Logger, with Error and
\* the text about the forgotten flush, nothing else of the buffer changing;
\* after that call it sets busy, makes itself the owner and goes on into
\* the append or the flush it came for; the other threads are where they
\* were, and nothing is raised.  There is one such call per timeout.
C31_TimeoutLogsErrorAndTakesOver ==
    /\ [][\A t \in Threads :
            TimesOut(t) =>
                /\ busy /\ owning_thread # t
                /\ \E c \in log_calls' \ log_calls :
                      /\ log_calls' = log_calls \cup {c}
                      /\ c.thread = t /\ c.node = buf_logger
                      /\ c.level = Error /\ c.text = ForgotFlush
                      /\ ~c.console
                /\ UNCHANGED <<busy, owning_thread, buf_str>>
                /\ \A u \in Threads \ {t} : pc'[u] = pc[u] /\ cur'[u] = cur[u]]_vars
    /\ [][\A t \in Threads :
            LeavesReset(t) =>
                /\ busy' /\ owning_thread' = t
                /\ pc'[t] = Resume(t, op[t])
                /\ UNCHANGED <<buf_str, log_calls>>
                /\ \A u \in Threads \ {t} : pc'[u] = pc[u] /\ cur'[u] = cur[u]]_vars
    /\ [](Cardinality(TimeoutCalls) = timeouts /\ ~raised)
    /\ [](\A t \in Threads :
            (pc[t] = "emit" /\ after[t] = "reset") =>
                (call[t] # <<>> /\ call[t][1].level = Error))

\* a thread's wait has timed out on another thread's message; it has
\* logged the error, owns the buffer and is about to append
C31_Witness ==
    \E t, u \in Threads :
        /\ t # u /\ cur[u] # <<>>
        /\ pc[t] = "put" /\ busy /\ owning_thread = t
        /\ \E c \in TimeoutCalls : c.thread = t
        /\ Len(clog_out.done) + Len(file_out.done) > 0

\* C32: among threads that flush every message they start, the owner of
\* the buffer with text appended stays the owner until its flush is done,
\* every flush hands Log the text its own thread appended and no other, and
\* Log is never called for a timeout.
C32_FlushingOwnerKeepsBuffer ==
    /\ [](TimeoutCalls = {})
    /\ [][\A t \in Threads :
            (busy /\ owning_thread = t /\ cur[t] # <<>>) => owning_thread' = t]_vars
    /\ [](\A c \in log_calls : c.kind = "flush" => c.text = c.own)

\* ---- the text left by a thread that gave up
\* what thread 1 had streamed when SpecFair starts
LeftBehind == <<Frag(1, 1, 1)>>
\* thread 1 has gone with that text unflushed and nothing added to it
Gone == pc[1] = "exited" /\ cur[1] = LeftBehind
\* thread u, in sync, calls Log for the first flush of the buffer
FirstFlush(u) ==
    /\ pc[u] = "deliver" /\ pc'[u] # "deliver"
    /\ \A c \in log_calls : c.kind # "flush"
\* the one timeout so far was thread u's
TookOver(u) == timeouts = 1 /\ \A c \in TimeoutCalls : c.thread = u

\* C33: the steps of a timeout (the Log call of the error, and busy and
\* owner set on leaving thread_sync) leave the string of the buffer, its
\* Logger, level and console flag as they were; and when the thread that
\* took the buffer over from a thread gone without flushing flushes, Log
\* is called with the text of the thread that is gone followed by its own.
C33_ResetKeepsAbandonedText ==
    /\ [][\A t \in Threads :
            (TimesOut(t) \/ LeavesReset(t)) =>
                UNCHANGED <<buf_str, buf_logger, buf_log_level, buf_console>>]_vars
    /\ [][\A u \in Threads \ {1} :
            (FirstFlush(u) /\ Gone /\ TookOver(u)) =>
                \E c \in log_calls' \ log_calls :
                    /\ c.kind = "flush" /\ c.thread = u
                    /\ c.text = LeftBehind \o cur[u]
                    /\ c.level = buf_log_level /\ c.console = buf_console]_vars

\* the thread that took over has appended and flushed, and its line in the
\* file has both texts
C33_Witness ==
    \E u \in Threads \ {1} :
        /\ Gone /\ TookOver(u) /\ msgs[u] = 1 /\ pc[u] = "idle"
        /\ \E c \in log_calls :
              /\ c.kind = "flush" /\ c.thread = u /\ Len(c.own) = 1
              /\ c.text = LeftBehind \o c.own
        /\ Len(file_out.done) = 2

\* ---- flushes of dropped messages
\* no thread is inside xsputn or sync, and none has text appended
NobodyStreaming ==
    \A t \in Threads :
        pc[t] \in {"idle", "waiting", "set_open", "set_store"} /\ cur[t] = <<>>
\* sync returns to thread t
SyncReturns(t) == pc[t] = "release" /\ pc'[t] = "idle"

\* C34: every flush leaves the buffer not busy and its string empty, the
\* message dropped (by a threshold on the path, or the facility None) or
\* not; every flush hands Log the appends of its own message and nothing of
\* an earlier one, and every line on std::clog is the line of one flush.
C34_FlushEmptiesAlsoWhenDropped ==
    /\ [][\A t \in Threads : SyncReturns(t) => (~busy' /\ buf_str' = <<>>)]_vars
    /\ [](NobodyStreaming => (~busy /\ buf_str = <<>>))
    /\ [](\A c \in log_calls :
            /\ c.kind = "flush"
            /\ c.text = c.own
            /\ c.own = Appends(c.thread, c.k, Len(c.own)))
    /\ [](\A x \in Range(Lines(clog_out.done)) :
            \E c \in Flushed \cup {d \in log_calls : Emitting(d.thread)} :
                x = MessageLine(c))
    /\ [](file_out = EmptyStream /\ syslog_out = <<>>)

\* a thread's first message was dropped and its second, after a threshold
\* or the facility was changed, is the one line on std::clog
C34_Witness ==
    \E t \in Threads :
        /\ msgs[t] = 2 /\ pc[t] = "idle" /\ ~busy /\ buf_str = <<>>
        /\ \E c, d \in log_calls :
              /\ c.thread = t /\ c.k = 1 /\ c.own # <<>>
              /\ d.thread = t /\ d.k = 2 /\ d.own # <<>>
              /\ Lines(clog_out.done) = <<MessageLine(d)>>

\* ---- a flush with nothing appended
\* the flushes of a thread that had appended nothing, Log returned
EmptyFlushed == {c \in Flushed : c.own = <<>>}
\* the line of such a flush in the file or on std::clog, and its text in
\* the syslog: the labels of the path and nothing behind them
EmptyLine ==
    GetTimestamp \o " [" \o LogLevelString(buf_log_level) \o "] "
        \o TagsRootFirst(buf_logger)
\* thread t is in sync, past thread_sync
InSync(t) ==
    op[t] = "sync" /\ (pc[t] \in {"deliver", "clear", "release"} \/ Emitting(t))

\* C35: when no wait times out, a flush by a thread that has appended
\* nothing makes the thread the owner of the buffer, calls Log on the
\* buffer's Logger exactly once, with the buffer's level and console flag
\* and the empty text, and leaves the buffer not busy and empty; when the
\* message passes, each sink the root writes to has one line per such
\* flush that has the labels of the path and nothing behind them.
C35_EmptyFlushLogsEmptyMessage ==
    /\ [](\A t \in Threads :
            /\ InSync(t) => (busy /\ owning_thread = t)
            /\ \A k \in 1..msgs[t] :
                  Cardinality({c \in log_calls : c.thread = t /\ c.k = k}) = 1)
    /\ [](\A c \in log_calls :
            c.own = <<>> =>
                /\ c.kind = "flush" /\ c.node = buf_logger /\ c.text = <<>>
                /\ c.level = buf_log_level /\ c.console = buf_console)
    /\ [][\A t \in Threads :
            (SyncReturns(t) /\ cur[t] = <<>>) => (~busy' /\ buf_str' = <<>>)]_vars
    /\ []((Passes /\ \A t \in Threads : ~Emitting(t)) =>
            LET n == Cardinality(EmptyFlushed)
            IN /\ (log_facility[Root] = "File")
                     => Count(Lines(file_out.done), EmptyLine) = n
               /\ (log_facility[Root] = "Console" \/ buf_console)
                     => Count(Lines(clog_out.done), EmptyLine) = n
               /\ (log_facility[Root] = "Syslog")
                     => Count(SyslogTexts, TagsRootFirst(buf_logger)) = n)

\* a thread has flushed the child's idle info_buf twice: two lines on
\* std::clog with the labels and no text
C35_Witness ==
    \E t \in Threads :
        /\ Alone(t) /\ msgs[t] = 2 /\ buf_logger = 2 /\ ~busy
        /\ Cardinality(EmptyFlushed) = 2
        /\ Lines(clog_out.done) = <<EmptyLine, EmptyLine>>
        /\ MessageBody(CHOOSE c \in EmptyFlushed : TRUE) = "[LTST] "

\* ---- the resources of the root
\* the step is a call of SetLogFacility on the root that changes over
ChangesOver ==
    /\ StepIs("SetLogFacility") /\ last_call'[1].node = Root
    /\ last_call'[1].arg # log_facility[Root]
\* the calls of the transport a step makes
ClosesLog ==
    \/ ChangesOver /\ log_facility[Root] = "Syslog"
    \/ Root \in destroyed' \ destroyed /\ log_facility[Root] = "Syslog"
OpensLog == ChangesOver /\ last_call'[1].arg = "Syslog"
CallsSyslog == StepIs("Log") /\ syslog_out' # <<>>

\* C36: with one thread making the calls, as long as the root lives its
\* file is open exactly when its stored facility is File and openlog is
\* in force exactly when it is Syslog, whatever SetLogFacility was called
\* with (files that do not open, the facility it has, calls on children);
\* closelog is called only with openlog in force and openlog only without,
\* syslog only with it in force and for a message that reached the root;
\* no child ever has a file open or another facility stored than Console;
\* and the root destroyed, neither resource is held.
C36_ResourcesMatchFacility ==
    /\ []((Root \in Alive) =>
            /\ (log_file[Root] # "") <=> (log_facility[Root] = "File")
            /\ syslog_open <=> (log_facility[Root] = "Syslog"))
    /\ []((Root \in destroyed) => (log_file[Root] = "" /\ ~syslog_open))
    /\ [](\A n \in (1..nodes) \ {Root} :
            log_file[n] = "" /\ log_facility[n] = "Console")
    /\ [][(ClosesLog => syslog_open) /\ (OpensLog => ~syslog_open \/ ClosesLog)]_vars
    /\ [][(syslog_open' # syslog_open) => (ClosesLog \/ OpensLog)]_vars
    /\ [][CallsSyslog =>
            /\ syslog_open /\ log_facility[Root] = "Syslog"
            /\ Len(syslog_out') = 1 /\ emit_calls' # <<>>]_vars

\* the root logs to syslog, no file open, and a message of a child has
\* gone to syslog
C36_Witness ==
    /\ LastIs("Log") /\ last_call[1].node # Root /\ syslog_out # <<>>
    /\ syslog_open /\ log_facility[Root] = "Syslog" /\ log_file[Root] = ""

\* ---- the two locks
\* thread t is inside xsputn, sync or Log
InCall(t) == pc[t] \notin {"idle", "exited"}

\* C37: every call of xsputn, sync or Log that a thread is in comes to its
\* end, whatever the other threads do, also when the owner of the buffer
\* never flushes; logger_mutex is held only by a thread inside the locked
\* block of EmitLog, which takes no other lock and does not wait for the
\* buffer; a thread that holds both locks took buffer_mutex first, in the
\* Log call of its timeout; and buffer_mutex is never taken by a thread
\* that holds logger_mutex.
C37_NoDeadlock ==
    /\ \A t \in Threads : InCall(t) ~> ~InCall(t)
    /\ [](\A t \in Threads :
            /\ (logger_mutex = t) <=> InSection(t)
            /\ (buffer_mutex = t) =>
                  (after[t] = "reset" /\ (pc[t] = "reset" \/ Emitting(t)))
            /\ (pc[t] = "waiting") => (logger_mutex # t /\ buffer_mutex # t))
    /\ [][\A t \in Threads :
            /\ (buffer_mutex' = t /\ buffer_mutex # t) => logger_mutex # t
            /\ (logger_mutex' = t /\ logger_mutex # t) => logger_mutex = 0]_vars

\* a thread in the Log call of its timeout holds buffer_mutex and stands at
\* logger_mutex, which another thread, in its own Log call, holds
C37_Witness ==
    \E t, u \in Threads :
        /\ t # u /\ buffer_mutex = t /\ pc[t] = "lock"
        /\ logger_mutex = u /\ InSection(u) /\ op[u] = "none"

\* ---- the fraction of the second
\* the number a sequence of digits stands for
RECURSIVE ValueOf(_)
ValueOf(text) ==
    IF text = <<>> THEN 0
    ELSE 10 * ValueOf(SubSeq(text, 1, Len(text) - 1))
           + ((CHOOSE d \in 1..10 : DigitChars[d] = text[Len(text)]) - 1)

\* C38, as stated: SetTimePrecision(Milliseconds) sets three digits and
\* Microseconds six; the fraction GetTimestamp writes has exactly the digits
\* configured, filled with zeros on the left, and stands, with three
\* digits, for the whole milliseconds gone by in the second of the reading
\* (the microseconds divided by 1000, modulo 1000), with six, for the
\* microseconds gone by in it (modulo 1000000).
C38_FractionOfTheSecond ==
    /\ LastIs("SetTimePrecision") =>
          time_digits[last_call[1].node]
              = (IF last_call[1].arg = "Milliseconds" THEN 3 ELSE 6)
    /\ LastIs("GetTimestamp") =>
          LET c == last_call[1]
              digits == time_digits[c.node]
          IN /\ digits \in {3, 6}
             /\ Len(c.fraction) = digits
             /\ ValueOf(c.fraction) =
                   (IF digits = 3 THEN (c.now_us \div 1000) % 1000
                    ELSE c.now_us % 1000000)

====
